---- MODULE Spec2Model ----
(***************************************************************************)
(* Asynchronous job processing of the Latexy backend: the job status       *)
(* manager over the key-value store, the Celery task executors, the job    *)
(* submitters and the job API (cancel), and the WebSocket connection       *)
(* manager that fans job updates out to subscribers.                       *)
(*                                                                         *)
(* A worker process runs a task top to bottom; every call that reaches the *)
(* store is one atomic step, and steps of other processes (the API         *)
(* process, other requests) interleave between them.  In the API process a *)
(* coroutine runs without interruption up to its next await.               *)
(***************************************************************************)
EXTENDS Naturals, Sequences, FiniteSets, TLC

VARIABLES
    status,               \* redis key job_status:<job_id>   (absent or a record)
    result,               \* redis key job_result:<job_id>
    progress,             \* redis key job_progress:<job_id>
    task,                 \* the queue's and the worker's view of each task
    stack,                \* the worker's call stack of each running task
    returned,             \* value a finished task returned to the queue
    progressLog,          \* progress writes of the current top-level attempt
    active_connections,   \* ConnectionManager.active_connections
    job_subscriptions,    \* ConnectionManager.job_subscriptions
    ws,                   \* the WebSocket handlers (websocket_endpoint)
    inbox,                \* job_update messages each socket has received
    req,                  \* the cancel requests (cancel_job coroutines)
    owed,                 \* executor changes written while a socket was subscribed
    redis_client,         \* core.redis.redis_client: the connection to the store
    ttl,                  \* seconds (in ticks) each key of the store has left
    written,              \* ticks since each key was last written
    reply,                \* what the last JobStatusManager call gave its caller
    fs,                   \* the directory tree under the clean-up directory
    device_trials,        \* the device_trials row of one device fingerprint
    usage_analytics,      \* number of usage_analytics rows of that device
    db_session,           \* the requests of the trial routes, one session each
    providers,            \* MultiProviderLLMService.providers, in insertion order
    default_provider,     \* MultiProviderLLMService.default_provider
    usage_stats,          \* MultiProviderLLMService.usage_stats
    generation,           \* the generate() call in flight and its outcome
    broadcasting          \* the ConnectionManager.broadcast call in flight

store == <<status, result, progress>>
worker == <<task, stack, returned, progressLog>>
fanout == <<active_connections, job_subscriptions, ws, inbox>>
trials == <<device_trials, usage_analytics, db_session>>
llmsvc == <<providers, default_provider, usage_stats, generation>>
vars == <<status, result, progress, task, stack, returned, progressLog,
          active_connections, job_subscriptions, ws, inbox, req, owed,
          redis_client, ttl, written, reply, fs, trials, llmsvc, broadcasting>>

----------------------------------------------------------------------------
(* Bounds of the model *)

MaxCancels == 1          \* cancel requests issued in one behaviour
MaxPdfSize == 2          \* sizes of the compiled artifact: 1..MaxPdfSize
MaxRecipients == 2       \* recipients of a bulk notification: 0..MaxRecipients
JOB_RESULT_TTL == 2      \* settings.JOB_RESULT_TTL, in ticks of the store's clock

(* Program constants *)

max_retries == 3         \* Task.max_retries of every task (JOB_RETRY_ATTEMPTS)

None == <<>>
Some(x) == <<x>>

TaskIds == {"t1", "t2"}              \* ids the queue assigns to submitted tasks
FirstTask == {"t1"}                  \* the id of the first submission
Handlers == {"h1", "h2"}             \* WebSocket handlers that may be opened
ConnIds == {"c1", "c2"}              \* connection ids clients may choose
Reqs == 1..MaxCancels
PdfSizes == 1..MaxPdfSize

Families == {"compile", "combined", "optimize", "score", "temp", "sweep",
             "notify", "bulk"}

(* LaTeX sources, as sequences of the tokens the validation looks for. *)
Contents == { <<>>, <<" ">>, <<"text">>,
              <<"\\documentclass", "\\begin{document}">>,
              <<"\\documentclass", "\\begin{document}", "\\end{document}">> }
Descriptions == { <<>>, <<"text">> }

----------------------------------------------------------------------------
(* Job identifiers *)

Uuid(t) == "job-" \o t                 \* str(uuid.uuid4()) drawn at submission
NestedId(t, k) == t \o "." \o (<<"0", "1", "2", "3", "4">>)[k + 1]
                                       \* the id apply() gives a nested task

TopJobId(family, t) ==
    CASE family = "compile"  -> Uuid(t)
      [] family = "combined" -> Uuid(t)
      [] family = "optimize" -> "llm_" \o t
      [] family = "score"    -> "ats_" \o t
      [] family = "temp"     -> "cleanup_" \o t
      [] family = "sweep"    -> "job_cleanup_" \o t
      [] family = "notify"   -> "email_" \o t
      [] family = "bulk"     -> "bulk_email_" \o t

GhostJob == "ghost"                    \* a job id no submitter ever returned

JobIds ==
    {GhostJob}
    \cup { TopJobId(f, t) : f \in Families, t \in TaskIds }
    \cup { Uuid(t) \o "_compiled" : t \in TaskIds }
    \cup { "llm_" \o NestedId(t, 0) : t \in TaskIds }
    \cup { "email_" \o NestedId(t, k) : t \in TaskIds, k \in 0..MaxRecipients }

----------------------------------------------------------------------------
(* JobStatusManager: the three keys of a job *)

set_job_status(job_id, st, metadata) ==
    [status EXCEPT ![job_id] = Some([status |-> st, metadata |-> metadata])]

get_job_status(job_id) == status[job_id]

set_job_result(job_id, payload) == [result EXCEPT ![job_id] = Some(payload)]

get_job_result(job_id) == result[job_id]

set_job_progress(job_id, value) == [progress EXCEPT ![job_id] = Some(value)]

get_job_progress(job_id) == progress[job_id]

get_active_jobs == { j \in JobIds : status[j] # None }

(* job_routes.get_job_status: the status code of GET /{job_id}/status *)
StatusLookup(job_id) == IF get_job_status(job_id) = None THEN "404" ELSE "200"

StatusOf(job_id) ==
    IF status[job_id] = None THEN "absent" ELSE status[job_id][1].status

(* redis_client.setex(key, settings.JOB_RESULT_TTL, ...): the key's time to *)
(* live starts again.                                                      *)
Kinds == {"status", "result", "progress"}

(* What a call of the JobStatusManager gave its caller: the value it       *)
(* returned, or the exception it raised.                                   *)
Reply(op, job_id, raised, value) ==
    [op |-> op, job_id |-> job_id, raised |-> raised, value |-> value]

NoReply == Reply("", "", "", None)

StoreError == "Redis client not initialized"

(* Every write first passes "if not redis_client: raise RuntimeError". *)
setex(kind, job_id) ==
    /\ redis_client = "connected"
    /\ ttl' = [ttl EXCEPT ![kind][job_id] = JOB_RESULT_TTL]
    /\ written' = [written EXCEPT ![kind][job_id] = 0]

----------------------------------------------------------------------------
(* LaTeXService.validate_latex_content *)

Strip(content) == SelectSeq(content, LAMBDA tok : tok # " ")

Contains(content, tok) == \E i \in 1..Len(content) : content[i] = tok

validate_latex_content(content) ==
    IF Strip(content) = <<>> THEN FALSE
    ELSE /\ Contains(content, "\\documentclass")
         /\ Contains(content, "\\begin{document}")
         /\ Contains(content, "\\end{document}")

(* What LaTeXService.compile_latex returns: every failure inside its try,  *)
(* the timeout included, comes back as a response with success False.      *)
CompilationResponses ==
    { [success |-> TRUE, message |-> "LaTeX compiled successfully",
       pdf_size |-> Some(n)] : n \in PdfSizes }
    \cup { [success |-> FALSE, message |-> m, pdf_size |-> None] :
             m \in {"LaTeX compilation failed", "Compilation error: timed out"} }

----------------------------------------------------------------------------
(* The worker: frames of the running task function and of the tasks it     *)
(* calls with apply()                                                      *)

Frame(fn, job, tid, retries, content, jd, n) ==
    [fn |-> fn, pc |-> "start", job |-> job, tid |-> tid, retries |-> retries,
     content |-> content, jd |-> jd, n |-> n, i |-> 0, k |-> 0, count |-> 0,
     res |-> None, exc |-> "", keys |-> <<>>, files_deleted |-> 0,
     directories_deleted |-> 0]

Top(t) == stack[t][Len(stack[t])]

Running(t, fn) ==
    /\ task[t].state = "running"
    /\ stack[t] # <<>>
    /\ Top(t).fn = fn

SetTop(t, f) == [stack EXCEPT ![t] = [@ EXCEPT ![Len(@)] = f]]

(* The result dictionaries: the keys the claims read; a key a dictionary   *)
(* lacks, or holds None under, is None.                                    *)
Payload(success, job, message, error, pdf_size) ==
    [success |-> success, job_id |-> job, message |-> message, error |-> error,
     pdf_size |-> pdf_size, optimization |-> None, compilation |-> None]

(* Sockets whose connection id is subscribed to job, with the change an    *)
(* executor has just written for it.                                       *)
Subscribers(job) ==
    IF job \in DOMAIN job_subscriptions
    THEN { h \in Handlers : /\ ws[h].state = "open"
                            /\ ws[h].cid \in DOMAIN active_connections
                            /\ active_connections[ws[h].cid] = h
                            /\ \E k \in 1..Len(job_subscriptions[job]) :
                                   job_subscriptions[job][k] = ws[h].cid }
    ELSE {}

Owe(job, kind, value) ==
    owed \cup { <<h, job, kind, value>> : h \in Subscribers(job) }

(* Store effects of a worker step *)
StoreStatus(job, st, metadata) ==
    /\ status' = set_job_status(job, st, metadata)
    /\ owed' = Owe(job, "status", st)
    /\ req' = [r \in DOMAIN req |->
                  IF req[r].pc # "idle" /\ req[r].job = job
                  THEN [req[r] EXCEPT !.replaced = TRUE] ELSE req[r]]
    /\ setex("status", job)
    /\ UNCHANGED <<result, progress, progressLog>>

StoreProgress(t, job, value) ==
    /\ progress' = set_job_progress(job, value)
    /\ progressLog' = [progressLog EXCEPT
                          ![t] = Append(@, [job |-> job, value |-> value])]
    /\ owed' = Owe(job, "progress", value)
    /\ setex("progress", job)
    /\ UNCHANGED <<status, result, req>>

StoreResult(job, payload) ==
    /\ result' = set_job_result(job, payload)
    /\ owed' = Owe(job, "result", payload.success)
    /\ setex("result", job)
    /\ UNCHANGED <<status, progress, progressLog, req>>

NoStore ==
    UNCHANGED <<status, result, progress, progressLog, owed, req, ttl, written>>

(* Control effects of a worker step *)
Jump(t, f) ==
    /\ stack' = SetTop(t, f)
    /\ UNCHANGED <<task, returned>>

Goto(t, pc) == Jump(t, [Top(t) EXCEPT !.pc = pc])

Call(t, pc, callee) ==
    /\ stack' = [stack EXCEPT
                    ![t] = Append([@ EXCEPT ![Len(@)].pc = pc], callee)]
    /\ UNCHANGED <<task, returned>>

Return(t, payload) ==
    IF Len(stack[t]) = 1
    THEN /\ task' = [task EXCEPT ![t].state = "done"]
         /\ stack' = [stack EXCEPT ![t] = <<>>]
         /\ returned' = [returned EXCEPT ![t] = Some(payload)]
    ELSE /\ stack' = [stack EXCEPT
                         ![t] = [SubSeq(@, 1, Len(@) - 1) EXCEPT
                                    ![Len(@) - 1].res = Some(payload)]]
         /\ UNCHANGED <<task, returned>>

(* raise self.retry(...): the queue reschedules a task it delivered, with  *)
(* retries + 1; in a task run with apply() the Retry propagates into the   *)
(* caller (task_eager_propagates=True), whose call sits in its try block.  *)
RetryCountdown(fn) ==
    CASE fn = "compile"  -> 60
      [] fn = "combined" -> 120
      [] fn = "optimize" -> 120
      [] fn = "score"    -> 60
      [] fn = "notify"   -> 30

RaiseRetry(t) ==
    IF Len(stack[t]) = 1
    THEN /\ task' = [task EXCEPT ![t].state = "queued", ![t].retries = @ + 1,
                                 ![t].countdown = RetryCountdown(Top(t).fn)]
         /\ stack' = [stack EXCEPT ![t] = <<>>]
         /\ UNCHANGED returned
    ELSE /\ stack' = [stack EXCEPT
                         ![t] = [SubSeq(@, 1, Len(@) - 1) EXCEPT
                                    ![Len(@) - 1].exc = "Retry",
                                    ![Len(@) - 1].pc = "exc"]]
         /\ UNCHANGED <<task, returned>>

(* An exception leaves the task function: the queue records the failure   *)
(* and the task returns nothing; in a task run with apply() it propagates  *)
(* into the caller.                                                        *)
(* A handler that answers with an error payload instead. *)
RaiseAsPayload(t, exc) ==
    Return(t, Payload(FALSE, Top(t).job, exc, Some(exc), None))

Raise(t, exc) ==
    IF Len(stack[t]) = 1
    THEN /\ task' = [task EXCEPT ![t].state = "failure"]
         /\ stack' = [stack EXCEPT ![t] = <<>>]
         /\ UNCHANGED returned
    ELSE /\ stack' = [stack EXCEPT
                         ![t] = [SubSeq(@, 1, Len(@) - 1) EXCEPT
                                    ![Len(@) - 1].exc = exc,
                                    ![Len(@) - 1].pc = "exc"]]
         /\ UNCHANGED <<task, returned>>

RetryOrReturn(t, payload) ==
    IF Top(t).retries < max_retries THEN RaiseRetry(t) ELSE Return(t, payload)

Others ==
    UNCHANGED <<active_connections, job_subscriptions, ws, inbox, redis_client,
                reply, trials, llmsvc, broadcasting>>

----------------------------------------------------------------------------
(* latex_worker.compile_latex_task *)

(* A result that leaves the size of the PDF out. *)
CompileResultDataNoSize(f) ==
    Payload(f.res[1].success, f.job, f.res[1].message,
            IF f.res[1].success THEN None ELSE Some(f.res[1].message), None)

CompileResultData(f) ==
    Payload(f.res[1].success, f.job, f.res[1].message,
            IF f.res[1].success THEN None ELSE Some(f.res[1].message),
            IF f.res[1].success THEN f.res[1].pdf_size ELSE None)

CompileErrorData(f) ==
    Payload(FALSE, f.job, "Compilation error: " \o f.exc, Some(f.exc), None)

CompileFailureProgress == 50

compile_latex_task(t) ==
    LET f == Top(t) IN
    /\ Running(t, "compile")
    /\ Others
    /\ UNCHANGED fs
    /\ \/ /\ f.pc = "start"
          /\ StoreStatus(f.job, "processing",
                 {"task_id", "user_id", "device_fingerprint", "started_at",
                  "metadata"})
          /\ Goto(t, "p10")
       \/ /\ f.pc = "p10"
          /\ StoreProgress(t, f.job, 10)
          /\ Goto(t, "validate")
       \/ /\ f.pc = "validate"
          /\ ~validate_latex_content(f.content)
          /\ StoreStatus(f.job, "failed", {"error", "completed_at"})
          /\ Return(t, Payload(FALSE, f.job, "Invalid LaTeX content",
                               Some("Invalid LaTeX content"), None))
       \/ /\ f.pc = "validate"
          /\ validate_latex_content(f.content)
          /\ StoreProgress(t, f.job, 30)
          /\ Goto(t, "compile")
       \/ /\ f.pc = "compile"
          /\ NoStore
          /\ \/ \E resp \in CompilationResponses :
                    Jump(t, [f EXCEPT !.pc = "after", !.res = Some(resp)])
             \/ Jump(t, [f EXCEPT !.pc = "exc", !.exc = "OSError"])
       \/ /\ f.pc = "after"
          /\ StoreProgress(t, f.job,
                 IF f.res[1].success THEN 90 ELSE CompileFailureProgress)
          /\ Goto(t, "final")
       \/ /\ f.pc = "final"
          /\ StoreStatus(f.job,
                 IF f.res[1].success THEN "completed" ELSE "failed",
                 {"task_id", "completed_at", "compilation_time", "success"})
          /\ Goto(t, "result")
       \/ /\ f.pc = "result"
          /\ StoreResult(f.job, CompileResultData(f))
          /\ Goto(t, "p100")
       \/ /\ f.pc = "p100"
          /\ StoreProgress(t, f.job, 100)
          /\ Return(t, CompileResultData(f))
       \/ /\ f.pc = "exc"
          /\ StoreStatus(f.job, "failed", {"task_id", "error", "completed_at"})
          /\ Goto(t, "exc_result")
       \/ /\ f.pc = "exc_result"
          /\ StoreResult(f.job, CompileErrorData(f))
          /\ RetryOrReturn(t, CompileErrorData(f))
       \/ /\ f.pc \in {"start", "p10", "validate", "after", "final", "result",
                       "p100"}          \* a store call in the try block raises
          /\ redis_client # "connected"
          /\ NoStore
          /\ Jump(t, [f EXCEPT !.pc = "exc", !.exc = StoreError])
       \/ /\ f.pc \in {"exc", "exc_result"}  \* a store call in the handler raises
          /\ redis_client # "connected"
          /\ NoStore
          /\ Raise(t, StoreError)

----------------------------------------------------------------------------
(* llm_worker.optimize_resume_task *)

(* The attributes of models.llm_schemas.OptimizationResponse, the type of  *)
(* what llm_service.optimize_resume returns; the task reads result.message *)
(* and result.keywords_added when it builds result_data.                   *)
OptimizationResponseFields ==
    {"success", "optimized_latex", "original_latex", "job_description",
     "keywords_found", "changes_made", "ats_score", "optimization_time",
     "tokens_used", "model_used", "error_message", "warnings"}

ResultDataReads == {"success", "message", "optimized_latex", "changes_made",
                    "ats_score", "keywords_added"}

OptimizeErrorData(f) ==
    Payload(FALSE, f.job, "Optimization error: " \o f.exc, Some(f.exc), None)

OptimizeResultData(f) ==
    Payload(f.res[1].success, f.job, "message",
            IF f.res[1].success THEN None ELSE Some("message"), None)

RateLimited(exc) == exc = "rate limit"

optimize_resume_task(t) ==
    LET f == Top(t) IN
    /\ Running(t, "optimize")
    /\ Others
    /\ UNCHANGED fs
    /\ \/ /\ f.pc = "start"
          /\ ~task[t].llm_available
          /\ NoStore
          /\ Return(t, Payload(FALSE, f.job, "LLM service is not available",
                               Some("LLM service is not available"), None))
       \/ /\ f.pc = "start"
          /\ task[t].llm_available
          /\ StoreStatus(f.job, "processing",
                 {"task_id", "user_id", "started_at", "provider", "model",
                  "optimization_level", "metadata"})
          /\ Goto(t, "p10")
       \/ /\ f.pc = "p10"
          /\ StoreProgress(t, f.job, 10)
          /\ Goto(t, "p30")
       \/ /\ f.pc = "p30"
          /\ StoreProgress(t, f.job, 30)
          /\ Goto(t, "llm")
       \/ /\ f.pc = "llm"
          /\ NoStore
          /\ \E ok \in BOOLEAN :
                 Jump(t, [f EXCEPT !.pc = "after", !.res = Some([success |-> ok])])
       \/ /\ f.pc = "after"
          /\ StoreProgress(t, f.job, IF f.res[1].success THEN 90 ELSE 50)
          /\ IF ResultDataReads \subseteq OptimizationResponseFields
             THEN Goto(t, "final")
             ELSE Jump(t, [f EXCEPT !.pc = "exc", !.exc = "AttributeError"])
       \/ /\ f.pc = "final"
          /\ StoreStatus(f.job,
                 IF f.res[1].success THEN "completed" ELSE "failed",
                 {"task_id", "completed_at", "optimization_time", "success",
                  "tokens_used"})
          /\ Goto(t, "result")
       \/ /\ f.pc = "result"
          /\ StoreResult(f.job, OptimizeResultData(f))
          /\ Goto(t, "p100")
       \/ /\ f.pc = "p100"
          /\ StoreProgress(t, f.job, 100)
          /\ Return(t, OptimizeResultData(f))
       \/ /\ f.pc = "exc"
          /\ StoreStatus(f.job, "failed", {"task_id", "error", "completed_at"})
          /\ Goto(t, "exc_result")
       \/ /\ f.pc = "exc_result"
          /\ StoreResult(f.job, OptimizeErrorData(f))
          /\ IF f.retries < max_retries /\ ~RateLimited(f.exc)
             THEN RaiseRetry(t)
             ELSE Return(t, OptimizeErrorData(f))

----------------------------------------------------------------------------
(* latex_worker.compile_latex_with_optimization_task *)

CombinedErrorData(f) ==
    Payload(FALSE, f.job, "Task error: " \o f.exc, Some(f.exc), None)

CombinedResult(f, optimization, compilation) ==
    [Payload(optimization.success /\ compilation.success, f.job,
             IF optimization.success /\ compilation.success
             THEN "Optimization and compilation completed"
             ELSE "Optimization and compilation failed",
             IF optimization.success /\ compilation.success
             THEN None
             ELSE Some("Either optimization or compilation failed"), None)
     EXCEPT !.optimization = Some(optimization),
            !.compilation = Some(compilation)]

compile_latex_with_optimization_task(t) ==
    LET f == Top(t) IN
    /\ Running(t, "combined")
    /\ Others
    /\ UNCHANGED fs
    /\ \/ /\ f.pc = "start"
          /\ StoreStatus(f.job, "processing",
                 {"task_id", "user_id", "device_fingerprint", "started_at",
                  "stage", "metadata"})
          /\ Goto(t, "p20")
       \/ /\ f.pc = "p20"
          /\ StoreProgress(t, f.job, 20)
          /\ Call(t, "optimized",
                  Frame("optimize", "llm_" \o NestedId(f.tid, 0),
                        NestedId(f.tid, 0), 0, f.content, f.jd, 0))
       \/ /\ f.pc = "optimized"
          /\ ~f.res[1].success
          /\ StoreStatus(f.job, "failed", {"error", "stage", "completed_at"})
          /\ Return(t, [Payload(FALSE, f.job, "Optimization failed",
                                Some("Optimization failed"), None)
                        EXCEPT !.optimization = f.res])
       \/ /\ f.pc = "optimized"
          /\ f.res[1].success
          /\ StoreProgress(t, f.job, 60)
          /\ Goto(t, "stage2")
       \/ /\ f.pc = "stage2"
          /\ StoreStatus(f.job, "processing",
                 {"task_id", "stage", "optimization_completed"})
          /\ Call(t, "compiled",
                  Frame("compile", f.job \o "_compiled", NestedId(f.tid, 1), 0,
                        f.content, f.jd, 0))
       \/ /\ f.pc = "compiled"
          /\ StoreStatus(f.job,
                 IF f.res[1].success THEN "completed" ELSE "failed",
                 {"task_id", "completed_at", "success", "stage"})
          /\ Goto(t, "result")
       \/ /\ f.pc = "result"
          /\ StoreResult(f.job, CombinedResult(f, [success |-> TRUE], f.res[1]))
          /\ Goto(t, "p100")
       \/ /\ f.pc = "p100"
          /\ StoreProgress(t, f.job, 100)
          /\ Return(t, CombinedResult(f, [success |-> TRUE], f.res[1]))
       \/ /\ f.pc = "exc"
          /\ StoreStatus(f.job, "failed", {"task_id", "error", "completed_at"})
          /\ Goto(t, "exc_result")
       \/ /\ f.pc = "exc_result"
          /\ StoreResult(f.job, CombinedErrorData(f))
          /\ RetryOrReturn(t, CombinedErrorData(f))

----------------------------------------------------------------------------
(* ats_worker.score_resume_ats_task *)

ScoreResultData(f) == Payload(TRUE, f.job, "ATS scoring completed", None, None)

ScoreErrorData(f) ==
    Payload(FALSE, f.job, "ATS scoring error: " \o f.exc, Some(f.exc), None)

score_resume_ats_task(t) ==
    LET f == Top(t) IN
    /\ Running(t, "score")
    /\ Others
    /\ UNCHANGED fs
    /\ \/ /\ f.pc = "start"
          /\ StoreStatus(f.job, "processing",
                 {"task_id", "user_id", "device_fingerprint", "started_at",
                  "industry", "has_job_description", "metadata"})
          /\ Goto(t, "p10")
       \/ /\ f.pc = "p10"
          /\ StoreProgress(t, f.job, 10)
          /\ Goto(t, "validate")
       \/ /\ f.pc = "validate"
          /\ Strip(f.content) = <<>>
          /\ StoreStatus(f.job, "failed", {"error", "completed_at"})
          /\ Return(t, Payload(FALSE, f.job, "LaTeX content is required",
                               Some("LaTeX content is required"), None))
       \/ /\ f.pc = "validate"
          /\ Strip(f.content) # <<>>
          /\ StoreProgress(t, f.job, 20)
          /\ Goto(t, "score")
       \/ /\ f.pc = "score"
          /\ NoStore
          /\ Goto(t, "after")
       \/ /\ f.pc = "after"
          /\ StoreProgress(t, f.job, 80)
          /\ Goto(t, "final")
       \/ /\ f.pc = "final"
          /\ StoreStatus(f.job, "completed",
                 {"task_id", "completed_at", "scoring_time", "ats_score",
                  "success"})
          /\ Goto(t, "result")
       \/ /\ f.pc = "result"
          /\ StoreResult(f.job, ScoreResultData(f))
          /\ Goto(t, "p100")
       \/ /\ f.pc = "p100"
          /\ StoreProgress(t, f.job, 100)
          /\ Return(t, ScoreResultData(f))
       \/ /\ f.pc = "exc"
          /\ StoreStatus(f.job, "failed", {"task_id", "error", "completed_at"})
          /\ Goto(t, "exc_result")
       \/ /\ f.pc = "exc_result"
          /\ StoreResult(f.job, ScoreErrorData(f))
          /\ RetryOrReturn(t, ScoreErrorData(f))

----------------------------------------------------------------------------
(* cleanup_worker.cleanup_temp_files_task *)

CleanupResultData(f, message) ==
    Payload(TRUE, f.job, message, None, None)
        @@ [files_deleted |-> f.files_deleted,
            directories_deleted |-> f.directories_deleted]

(* The tree under the clean-up directory: fs maps each path that exists to *)
(* whether its st_mtime is before the cutoff of a run.  Removing an entry  *)
(* sets the mtime of its directory to now, which is after the cutoff.      *)
Paths == {"d", "d/e", "d/e/f", "g"}

IsDir(path) == path \in {"d", "d/e"}

Parent(path) ==
    CASE path = "d/e"   -> "d"
      [] path = "d/e/f" -> "d/e"
      [] OTHER          -> ""

(* cleanup_dir.rglob("*"): the entries of a directory come before those of *)
(* its subdirectories.                                                     *)
rglob == <<"d", "g", "d/e", "d/e/f">>

Trees ==
    UNION { [S -> BOOLEAN] :
              S \in { T \in SUBSET Paths :
                        \A q \in T : Parent(q) = "" \/ Parent(q) \in T } }

iterdir(tree, path) == { q \in DOMAIN tree : Parent(q) = path }

unlink(tree, path) ==
    [q \in DOMAIN tree \ {path} |-> IF q = Parent(path) THEN FALSE ELSE tree[q]]

(* The first loop: items older than the cutoff; files are unlinked and     *)
(* directories that are empty when they are visited are removed.           *)
RECURSIVE DeleteOld(_, _, _, _)
DeleteOld(tree, i, files, dirs) ==
    IF i > Len(rglob)
    THEN [fs |-> tree, files_deleted |-> files, directories_deleted |-> dirs]
    ELSE LET item == rglob[i] IN
         IF item \in DOMAIN tree /\ tree[item]
         THEN IF ~IsDir(item)
              THEN DeleteOld(unlink(tree, item), i + 1, files + 1, dirs)
              ELSE IF iterdir(tree, item) = {}
                   THEN DeleteOld(unlink(tree, item), i + 1, files, dirs + 1)
                   ELSE DeleteOld(tree, i + 1, files, dirs)
         ELSE DeleteOld(tree, i + 1, files, dirs)

(* The second loop: every directory that is empty when it is visited. *)
RECURSIVE DeleteEmpty(_, _, _)
DeleteEmpty(tree, i, dirs) ==
    IF i > Len(rglob)
    THEN [fs |-> tree, directories_deleted |-> dirs]
    ELSE LET item == rglob[i] IN
         IF item \in DOMAIN tree /\ IsDir(item) /\ iterdir(tree, item) = {}
         THEN DeleteEmpty(unlink(tree, item), i + 1, dirs + 1)
         ELSE DeleteEmpty(tree, i + 1, dirs)

CleanupErrorData(f) ==
    Payload(FALSE, f.job, "Cleanup error: " \o f.exc, Some(f.exc), None)

cleanup_temp_files_task(t) ==
    LET f == Top(t) IN
    /\ Running(t, "temp")
    /\ Others
    /\ IF f.pc \in {"scan", "empty"} THEN TRUE ELSE UNCHANGED fs
    /\ \/ /\ f.pc = "start"
          /\ StoreStatus(f.job, "processing",
                 {"task_id", "max_age_hours", "target_directory", "started_at",
                  "metadata"})
          /\ Goto(t, "p10")
       \/ /\ f.pc = "p10"
          /\ StoreProgress(t, f.job, 10)
          /\ Goto(t, "exists")
       \/ /\ f.pc = "exists"
          /\ ~task[t].dir_exists
          /\ StoreStatus(f.job, "completed", {"success"})
          /\ Goto(t, "nodir_result")
       \/ /\ f.pc = "nodir_result"
          /\ StoreResult(f.job,
                 CleanupResultData(f, "Cleanup directory does not exist"))
          /\ Return(t, CleanupResultData(f, "Cleanup directory does not exist"))
       \/ /\ f.pc = "exists"
          /\ task[t].dir_exists
          /\ StoreProgress(t, f.job, 30)
          /\ Goto(t, "scan")
       \/ /\ f.pc = "scan"
          /\ LET done == DeleteOld(fs, 1, 0, 0) IN
                 /\ fs' = done.fs
                 /\ StoreProgress(t, f.job, 80)
                 /\ Jump(t, [f EXCEPT
                                !.pc = "empty",
                                !.files_deleted = done.files_deleted,
                                !.directories_deleted = done.directories_deleted])
       \/ /\ f.pc = "empty"
          /\ LET done == DeleteEmpty(fs, 1, f.directories_deleted) IN
                 /\ fs' = done.fs
                 /\ NoStore
                 /\ Jump(t, [f EXCEPT
                                !.pc = "final",
                                !.directories_deleted = done.directories_deleted])
       \/ /\ f.pc = "final"
          /\ StoreStatus(f.job, "completed",
                 {"task_id", "completed_at", "files_deleted",
                  "directories_deleted", "space_freed", "success"})
          /\ Goto(t, "result")
       \/ /\ f.pc = "result"
          /\ StoreResult(f.job, CleanupResultData(f, "Cleanup completed"))
          /\ Goto(t, "p100")
       \/ /\ f.pc = "p100"
          /\ StoreProgress(t, f.job, 100)
          /\ Return(t, CleanupResultData(f, "Cleanup completed"))
       \/ /\ f.pc = "exc"
          /\ StoreStatus(f.job, "failed", {"task_id", "error", "completed_at"})
          /\ Goto(t, "exc_result")
       \/ /\ f.pc = "exc_result"
          /\ StoreResult(f.job, CleanupErrorData(f))
          /\ Return(t, CleanupErrorData(f))

----------------------------------------------------------------------------
(* cleanup_worker.cleanup_expired_jobs_task *)

(* A caller of get_job_status / get_job_result: a plain GET of the key.    *)
(* A get that also renews the key's time to live. *)
get_status_renewing(job_id) ==
    /\ reply' = Reply("get_job_status", job_id, "", get_job_status(job_id))
    /\ ttl' = [ttl EXCEPT !["status"][job_id] =
                  IF status[job_id] # None THEN JOB_RESULT_TTL ELSE @]
    /\ UNCHANGED <<store, worker, fanout, req, owed, redis_client, written, fs,
                   trials, llmsvc, broadcasting>>

get_status(job_id) ==
    /\ reply' = IF redis_client = "connected"
                THEN Reply("get_job_status", job_id, "", get_job_status(job_id))
                ELSE Reply("get_job_status", job_id, StoreError, None)
    /\ UNCHANGED <<store, worker, fanout, req, owed, redis_client, ttl,
                   written, fs,
                   trials, llmsvc, broadcasting>>

get_result(job_id) ==
    /\ reply' = IF redis_client = "connected"
                THEN Reply("get_job_result", job_id, "", get_job_result(job_id))
                ELSE Reply("get_job_result", job_id, StoreError, None)
    /\ UNCHANGED <<store, worker, fanout, req, owed, redis_client, ttl,
                   written, fs,
                   trials, llmsvc, broadcasting>>

get_progress(job_id) ==
    /\ reply' = IF redis_client = "connected"
                THEN Reply("get_job_progress", job_id, "",
                           get_job_progress(job_id))
                ELSE Reply("get_job_progress", job_id, StoreError, None)
    /\ UNCHANGED <<store, worker, fanout, req, owed, redis_client, ttl,
                   written, fs,
                   trials, llmsvc, broadcasting>>

list_jobs ==
    /\ reply' = IF redis_client = "connected"
                THEN Reply("get_active_jobs", "", "", get_active_jobs)
                ELSE Reply("get_active_jobs", "", StoreError, None)
    /\ UNCHANGED <<store, worker, fanout, req, owed, redis_client, ttl,
                   written, fs,
                   trials, llmsvc, broadcasting>>

(* The connection is made by init_redis and dropped by close_redis. *)
init_redis ==
    /\ redis_client # "connected"
    /\ redis_client' = "connected"
    /\ UNCHANGED <<store, worker, fanout, req, owed, ttl, written, reply, fs,
                   trials, llmsvc, broadcasting>>

close_redis ==
    /\ redis_client = "connected"
    /\ redis_client' = "closed"
    /\ UNCHANGED <<store, worker, fanout, req, owed, ttl, written, reply, fs,
                   trials, llmsvc, broadcasting>>

(* One tick of the store's clock: every key has one tick less to live and  *)
(* a key whose time is up is gone (SETEX).                                *)
Tick ==
    /\ \E k \in Kinds, j \in JobIds : ttl[k][j] > 0
    /\ ttl' = [k \in Kinds |-> [j \in JobIds |->
                  IF ttl[k][j] > 0 THEN ttl[k][j] - 1 ELSE 0]]
    /\ written' = [k \in Kinds |-> [j \in JobIds |->
                      IF ttl[k][j] > 0 /\ written[k][j] < JOB_RESULT_TTL
                      THEN written[k][j] + 1
                      ELSE written[k][j]]]
    /\ status' = [j \in JobIds |->
                     IF ttl["status"][j] = 1 THEN None ELSE status[j]]
    /\ result' = [j \in JobIds |->
                     IF ttl["result"][j] = 1 THEN None ELSE result[j]]
    /\ progress' = [j \in JobIds |->
                       IF ttl["progress"][j] = 1 THEN None ELSE progress[j]]
    /\ UNCHANGED <<worker, fanout, req, owed, redis_client, reply, fs,
                   trials, llmsvc, broadcasting>>

delete_job_data(job_id) ==
    /\ redis_client = "connected"
    /\ status' = [status EXCEPT ![job_id] = None]
    /\ result' = [result EXCEPT ![job_id] = None]
    /\ progress' = [progress EXCEPT ![job_id] = None]
    /\ ttl' = [k \in Kinds |-> [ttl[k] EXCEPT ![job_id] = 0]]
    /\ UNCHANGED written

Min(a, b) == IF a < b THEN a ELSE b

(* A sweep that tests the age only. *)
DeletableAnyStatus(job_status) == job_status # "absent"

(* job_status in ["completed", "failed", "cancelled"] *)
Deletable(job_status) == job_status \in {"completed", "failed", "cancelled"}

(* progress = 30 + int((i / len(active_jobs)) * 60) *)
SweepProgress(i, len) == 30 + ((i * 60) \div len)

Orderings(S) ==
    { q \in [1..Cardinality(S) -> S] : \A a, b \in DOMAIN q : a # b => q[a] # q[b] }

SweepResultData(f, message) ==
    Payload(TRUE, f.job, message, None, None) @@ [jobs_cleaned |-> f.count]

cleanup_expired_jobs_task(t) ==
    LET f == Top(t) IN
    /\ Running(t, "sweep")
    /\ Others
    /\ UNCHANGED fs
    /\ \/ /\ f.pc = "start"
          /\ StoreStatus(f.job, "processing",
                 {"task_id", "max_age_hours", "batch_size", "started_at",
                  "metadata"})
          /\ Goto(t, "p10")
       \/ /\ f.pc = "p10"
          /\ StoreProgress(t, f.job, 10)
          /\ Goto(t, "keys")
       \/ /\ f.pc = "keys"
          /\ NoStore
          /\ \E q \in Orderings(get_active_jobs) :
                 Jump(t, [f EXCEPT !.keys = q,
                                   !.pc = IF q = <<>> THEN "nojobs" ELSE "p30"])
       \/ /\ f.pc = "nojobs"
          /\ StoreStatus(f.job, "completed", {"success"})
          /\ Goto(t, "nojobs_result")
       \/ /\ f.pc = "nojobs_result"
          /\ StoreResult(f.job,
                 SweepResultData(f, "No active jobs found for cleanup"))
          /\ Return(t, SweepResultData(f, "No active jobs found for cleanup"))
       \/ /\ f.pc = "p30"
          /\ StoreProgress(t, f.job, 30)
          /\ Goto(t, "scan")
       \/ /\ f.pc = "scan"          \* get_job_status(job_id_to_check)
          /\ f.k < Min(f.i + f.n, Len(f.keys))
          /\ NoStore
          /\ \/ /\ Deletable(StatusOf(f.keys[f.k + 1]))
                /\ Goto(t, "delete")      \* and updated_at < cutoff_time
             \/ Jump(t, [f EXCEPT !.k = @ + 1])   \* not expired, or no record
       \/ /\ f.pc = "delete"        \* delete_job_data(job_id_to_check)
          /\ delete_job_data(f.keys[f.k + 1])
          /\ UNCHANGED <<progressLog, owed, req>>
          /\ Jump(t, [f EXCEPT !.pc = "scan", !.k = @ + 1, !.count = @ + 1])
       \/ /\ f.pc = "scan"          \* the batch is done
          /\ f.k = Min(f.i + f.n, Len(f.keys))
          /\ StoreProgress(t, f.job, SweepProgress(f.i, Len(f.keys)))
          /\ Jump(t, [f EXCEPT !.i = @ + f.n,
                               !.pc = IF f.i + f.n < Len(f.keys)
                                      THEN "scan" ELSE "final"])
       \/ /\ f.pc = "final"
          /\ StoreStatus(f.job, "completed",
                 {"task_id", "completed_at", "jobs_cleaned",
                  "total_jobs_scanned", "success"})
          /\ Goto(t, "result")
       \/ /\ f.pc = "result"
          /\ StoreResult(f.job, SweepResultData(f, "Job cleanup completed"))
          /\ Goto(t, "p100")
       \/ /\ f.pc = "p100"
          /\ StoreProgress(t, f.job, 100)
          /\ Return(t, SweepResultData(f, "Job cleanup completed"))
       \/ /\ f.pc = "exc"
          /\ StoreStatus(f.job, "failed", {"task_id", "error", "completed_at"})
          /\ Goto(t, "exc_result")
       \/ /\ f.pc = "exc_result"
          /\ StoreResult(f.job, CleanupErrorData(f))
          /\ Return(t, CleanupErrorData(f))

----------------------------------------------------------------------------
(* email_worker.send_notification_email_task *)

EmailResultData(f) == Payload(TRUE, f.job, "Email sent successfully", None, None)

EmailErrorData(f) ==
    Payload(FALSE, f.job, "Email sending error: " \o f.exc, Some(f.exc), None)

send_notification_email_task(t) ==
    LET f == Top(t) IN
    /\ Running(t, "notify")
    /\ Others
    /\ UNCHANGED fs
    /\ \/ /\ f.pc = "start"
          /\ StoreStatus(f.job, "processing",
                 {"task_id", "user_id", "recipient_email", "email_type",
                  "started_at", "metadata"})
          /\ Goto(t, "p20")
       \/ /\ f.pc = "p20"
          /\ StoreProgress(t, f.job, 20)
          /\ Goto(t, "p60")
       \/ /\ f.pc = "p60"
          /\ StoreProgress(t, f.job, 60)
          /\ Goto(t, "p90")
       \/ /\ f.pc = "p90"
          /\ StoreProgress(t, f.job, 90)
          /\ Goto(t, "final")
       \/ /\ f.pc = "final"
          /\ StoreStatus(f.job, "completed",
                 {"task_id", "completed_at", "send_time", "success"})
          /\ Goto(t, "result")
       \/ /\ f.pc = "result"
          /\ StoreResult(f.job, EmailResultData(f))
          /\ Goto(t, "p100")
       \/ /\ f.pc = "p100"
          /\ StoreProgress(t, f.job, 100)
          /\ Return(t, EmailResultData(f))
       \/ /\ f.pc = "exc"
          /\ StoreStatus(f.job, "failed", {"task_id", "error", "completed_at"})
          /\ Goto(t, "exc_result")
       \/ /\ f.pc = "exc_result"
          /\ StoreResult(f.job, EmailErrorData(f))
          /\ RetryOrReturn(t, EmailErrorData(f))

(* email_worker.send_bulk_notification_task *)

(* A checkpoint that counts the recipients left instead of those done. *)
BulkProgressRemaining(i, len) == (((len - i) * 90) \div len) + 10

(* progress = int((i / len(recipients)) * 90) + 10 *)
BulkProgress(i, len) == ((i * 90) \div len) + 10

BulkResultData(f) ==
    Payload(f.count > 0, f.job, "Bulk email completed", None, None)

send_bulk_notification_task(t) ==
    LET f == Top(t) IN
    /\ Running(t, "bulk")
    /\ Others
    /\ UNCHANGED fs
    /\ \/ /\ f.pc = "start"
          /\ StoreStatus(f.job, "processing",
                 {"task_id", "recipient_count", "email_type", "started_at",
                  "metadata"})
          /\ Goto(t, "loop")
       \/ /\ f.pc = "loop"
          /\ f.i < f.n
          /\ StoreProgress(t, f.job, BulkProgress(f.i, f.n))
          /\ Call(t, "sent",
                  Frame("notify", "email_" \o NestedId(f.tid, f.i),
                        NestedId(f.tid, f.i), 0, <<>>, <<>>, 0))
       \/ /\ f.pc = "sent"
          /\ NoStore
          /\ Jump(t, [f EXCEPT !.pc = "loop", !.i = @ + 1, !.res = None,
                               !.count = IF f.res[1].success THEN @ + 1 ELSE @])
       \/ /\ f.pc = "exc"           \* the except inside the loop
          /\ NoStore
          /\ Jump(t, [f EXCEPT !.pc = "loop", !.i = @ + 1, !.exc = ""])
       \/ /\ f.pc = "loop"
          /\ f.i = f.n
          /\ StoreStatus(f.job, IF f.count > 0 THEN "completed" ELSE "failed",
                 {"task_id", "completed_at", "successful_sends", "failed_sends",
                  "success"})
          /\ Goto(t, "result")
       \/ /\ f.pc = "result"
          /\ StoreResult(f.job, BulkResultData(f))
          /\ Goto(t, "p100")
       \/ /\ f.pc = "p100"
          /\ StoreProgress(t, f.job, 100)
          /\ Return(t, BulkResultData(f))

----------------------------------------------------------------------------
(* The submitters and the queue *)

(* job is the id the submitter returns, job_id the keyword argument the    *)
(* task is sent with (None where the submitter sends none).                *)
NewTask(family, job, job_id, content, jd, n, llm, dir) ==
    [state |-> "queued", family |-> family, job |-> job, job_id |-> job_id,
     retries |-> 0, countdown |-> 0, after |-> {},
     content |-> content, jd |-> jd, n |-> n, llm_available |-> llm,
     dir_exists |-> dir]

NoTask == [state |-> "none", family |-> "", job |-> "", job_id |-> None,
           retries |-> 0, countdown |-> 0, after |-> {},
           content |-> <<>>, jd |-> <<>>, n |-> 0, llm_available |-> FALSE,
           dir_exists |-> FALSE]

(* A submitter that also creates the job's record. *)
EnqueuePending(t, record) ==
    /\ task[t].state = "none"
    /\ task' = [task EXCEPT ![t] = record]
    /\ status' = set_job_status(record.job, "pending", {"metadata"})
    /\ setex("status", record.job)
    /\ UNCHANGED <<result, progress, stack, returned, progressLog,
                   active_connections, job_subscriptions, ws, inbox, req, owed,
                   redis_client, reply, fs,
                   trials, llmsvc, broadcasting>>

(* task = <executor>.apply_async(...): the one effect of a submitter *)
Enqueue(t, record) ==
    /\ task[t].state = "none"
    /\ task' = [task EXCEPT ![t] = record]
    /\ UNCHANGED <<status, result, progress, stack, returned, progressLog,
                   active_connections, job_subscriptions, ws, inbox, req, owed,
                   redis_client, ttl, written, reply, fs,
                   trials, llmsvc, broadcasting>>

(* job_routes.submit_job: the three job types and their 400 responses *)
JobTypes == {"latex_compilation", "llm_optimization", "combined", "other"}

(* A validation that only looks at the job type. *)
AcceptedUnchecked(job_type, content, jd) ==
    job_type \in {"latex_compilation", "llm_optimization", "combined"}

Accepted(job_type, content, jd) ==
    CASE job_type = "latex_compilation" -> content # <<>>
      [] job_type = "llm_optimization"  -> content # <<>> /\ jd # <<>>
      [] job_type = "combined"          -> content # <<>> /\ jd # <<>>
      [] OTHER                          -> FALSE

(* latex_worker.submit_latex_compilation, submit_optimization_and_compilation *)
(* and llm_worker.submit_resume_optimization: apply_async only.             *)
submit_latex_compilation(t, content) ==
    /\ Enqueue(t, NewTask("compile", TopJobId("compile", t),
                          Some(TopJobId("compile", t)), content, <<>>, 0,
                          FALSE, FALSE))

submit_optimization_and_compilation(t, content, jd, llm) ==
    /\ Enqueue(t, NewTask("combined", TopJobId("combined", t),
                          Some(TopJobId("combined", t)), content, jd, 0,
                          llm, FALSE))

submit_resume_optimization(t, content, jd, llm) ==
    /\ Enqueue(t, NewTask("optimize", TopJobId("optimize", t), None, content,
                          jd, 0, llm, FALSE))

JobFamily(job_type) ==
    CASE job_type = "latex_compilation" -> "compile"
      [] job_type = "llm_optimization"  -> "optimize"
      [] job_type = "combined"          -> "combined"
      [] OTHER                          -> "unknown"

(* raise HTTPException(status_code=400, ...): request t is answered, its   *)
(* payload kept for the record, and no submitter is called.                *)
Reject(t, job_type, content, jd) ==
    /\ task[t].state = "none"
    /\ task' = [task EXCEPT ![t] = [NoTask EXCEPT !.state = "rejected",
                                                  !.family = JobFamily(job_type),
                                                  !.content = content,
                                                  !.jd = jd]]
    /\ UNCHANGED <<status, result, progress, stack, returned, progressLog,
                   active_connections, job_subscriptions, ws, inbox, req, owed,
                   redis_client, ttl, written, reply, fs,
                   trials, llmsvc, broadcasting>>

submit_job(t, job_type, content, jd, llm) ==
    \/ /\ ~Accepted(job_type, content, jd)
       /\ Reject(t, job_type, content, jd)
    \/ /\ Accepted(job_type, content, jd)
       /\ \/ /\ job_type = "latex_compilation"
             /\ submit_latex_compilation(t, content)
          \/ /\ job_type = "llm_optimization"
             /\ submit_resume_optimization(t, content, jd, llm)
          \/ /\ job_type = "combined"
             /\ submit_optimization_and_compilation(t, content, jd, llm)

(* ats_worker.submit_ats_scoring *)
submit_ats_scoring(t, content) ==
    /\ Enqueue(t, NewTask("score", TopJobId("score", t), None, content, <<>>,
                          0, FALSE, FALSE))

(* cleanup_worker.submit_temp_files_cleanup, submit_expired_jobs_cleanup *)
submit_temp_files_cleanup(t, dir) ==
    /\ Enqueue(t, NewTask("temp", TopJobId("temp", t), None, <<>>, <<>>, 0,
                          FALSE, dir))

submit_expired_jobs_cleanup(t, batch_size) ==
    /\ Enqueue(t, NewTask("sweep", TopJobId("sweep", t), None, <<>>, <<>>,
                          batch_size, FALSE, FALSE))

(* email_worker.submit_notification_email, and a bulk notification task *)
submit_notification_email(t) ==
    /\ Enqueue(t, NewTask("notify", TopJobId("notify", t), None, <<>>, <<>>, 0,
                          FALSE, FALSE))

submit_bulk_notification(t, recipients) ==
    /\ Enqueue(t, NewTask("bulk", TopJobId("bulk", t), None, <<>>, <<>>,
                          recipients, FALSE, FALSE))

(* An executor that makes up its own id whatever it is sent. *)
ExecutorJobIdFresh(family, task_id, job_id) ==
    CASE family = "compile"  -> GhostJob
      [] family = "combined" -> GhostJob
      [] family = "optimize" -> "llm_" \o task_id
      [] family = "score"    -> "ats_" \o task_id
      [] family = "temp"     -> "cleanup_" \o task_id
      [] family = "sweep"    -> "job_cleanup_" \o task_id
      [] family = "notify"   -> "email_" \o task_id
      [] family = "bulk"     -> "bulk_email_" \o task_id

(* The key an executor writes under: the job_id it was sent, or a uuid of  *)
(* its own if it was sent none (compile, combined); the family tag and     *)
(* self.request.id (the others).                                           *)
ExecutorJobId(family, task_id, job_id) ==
    CASE family = "compile"  -> IF job_id = None THEN GhostJob ELSE job_id[1]
      [] family = "combined" -> IF job_id = None THEN GhostJob ELSE job_id[1]
      [] family = "optimize" -> "llm_" \o task_id
      [] family = "score"    -> "ats_" \o task_id
      [] family = "temp"     -> "cleanup_" \o task_id
      [] family = "sweep"    -> "job_cleanup_" \o task_id
      [] family = "notify"   -> "email_" \o task_id
      [] family = "bulk"     -> "bulk_email_" \o task_id

(* A worker takes the task from its queue and starts an attempt; after     *)
(* records the tasks that had finished by then.                            *)
Pickup(t) ==
    /\ task[t].state = "queued"
    /\ task' = [task EXCEPT ![t].state = "running",
                            ![t].after = { u \in TaskIds :
                                             task[u].state = "done" }]
    /\ stack' = [stack EXCEPT
                    ![t] = << Frame(task[t].family,
                                    ExecutorJobId(task[t].family, t,
                                                  task[t].job_id), t,
                                    task[t].retries, task[t].content,
                                    task[t].jd, task[t].n) >>]
    /\ progressLog' = [progressLog EXCEPT ![t] = <<>>]
    /\ UNCHANGED <<status, result, progress, returned, active_connections,
                   job_subscriptions, ws, inbox, req, owed, redis_client, ttl,
                   written, reply, fs,
                   trials, llmsvc, broadcasting>>

----------------------------------------------------------------------------
(* job_routes.ConnectionManager and websocket_endpoint                     *)
(*                                                                         *)
(* active_connections maps a connection id to the socket of the handler    *)
(* that registered it last; job_subscriptions maps a job id to the list of *)
(* connection ids.  A socket is "idle" before its handler runs, "open"     *)
(* while the client is connected, "broken" once the client is gone and the *)
(* handler has not yet seen the WebSocketDisconnect, "closed" afterwards.  *)

DictSet(d, key, v) == [x \in DOMAIN d \cup {key} |-> IF x = key THEN v ELSE d[x]]

DictDel(d, key) == [x \in DOMAIN d \ {key} |-> d[x]]

In(list, x) == \E k \in 1..Len(list) : list[k] = x

(* list.remove(x): drops the first occurrence *)
Remove(list, x) ==
    LET first == CHOOSE k \in 1..Len(list) :
                     list[k] = x /\ \A m \in 1..(k - 1) : list[m] # x
    IN  IF In(list, x)
        THEN SubSeq(list, 1, first - 1) \o SubSeq(list, first + 1, Len(list))
        ELSE list

(* Job ids a client can name: the one a submitter returned to it, and any  *)
(* string of its own.                                                      *)
ClientJobs == {GhostJob} \cup { task[t].job : t \in { u \in TaskIds :
                                                        task[u].state # "none" } }

connect(h, connection_id) ==
    /\ ws[h].state = "idle"
    /\ ws' = [ws EXCEPT ![h] = [state |-> "open", cid |-> connection_id]]
    /\ active_connections' = DictSet(active_connections, connection_id, h)
    /\ UNCHANGED <<status, result, progress, task, stack, returned,
                   progressLog, job_subscriptions, inbox, req, owed,
                   redis_client, ttl, written, reply, fs,
                   trials, llmsvc, broadcasting>>

subscribed(connection_id, job_id) ==
    LET subs == IF job_id \in DOMAIN job_subscriptions
                THEN job_subscriptions[job_id] ELSE <<>>
    IN  DictSet(job_subscriptions, job_id,
                IF In(subs, connection_id) THEN subs
                ELSE Append(subs, connection_id))

(* The handler receives {"type": "subscribe", "job_id": job_id}; the       *)
(* subscription_confirmed reply is not a job_update and is not recorded.   *)
subscribe_to_job(h, job_id) ==
    /\ ws[h].state = "open"
    /\ job_id \in ClientJobs
    /\ job_subscriptions' = subscribed(ws[h].cid, job_id)
    /\ UNCHANGED <<status, result, progress, task, stack, returned,
                   progressLog, active_connections, ws, inbox, req, owed,
                   redis_client, ttl, written, reply, fs,
                   trials, llmsvc, broadcasting>>

(* The client goes away. *)
ClientClose(h) ==
    /\ ws[h].state = "open"
    /\ ws' = [ws EXCEPT ![h].state = "broken"]
    /\ UNCHANGED <<status, result, progress, task, stack, returned,
                   progressLog, active_connections, job_subscriptions, inbox,
                   req, owed, redis_client, ttl, written, reply, fs,
                   trials, llmsvc, broadcasting>>

disconnected(connection_id) ==
    [job_id \in DOMAIN job_subscriptions |->
        Remove(job_subscriptions[job_id], connection_id)]

(* receive_json raises WebSocketDisconnect: manager.disconnect(id) *)
disconnect(h) ==
    /\ ws[h].state = "broken"
    /\ ws' = [ws EXCEPT ![h].state = "closed"]
    /\ active_connections' = DictDel(active_connections, ws[h].cid)
    /\ job_subscriptions' = disconnected(ws[h].cid)
    /\ UNCHANGED <<status, result, progress, task, stack, returned,
                   progressLog, inbox, req, owed, redis_client, ttl, written,
                   reply, fs,
                   trials, llmsvc, broadcasting>>

----------------------------------------------------------------------------
(* job_routes.cancel_job and ConnectionManager.send_job_update             *)

(* A request: pc, job, i and disconnected_connections are the coroutine's  *)
(* position and locals.  The other fields record its history: phase is the *)
(* state of the job's task when the cancel was written, replaced whether   *)
(* an executor has written the job's status since, subs0 the sockets       *)
(* subscribed when the push began, failed the sends that raised.           *)
IdleReq == [pc |-> "idle", job |-> "", i |-> 0, disconnected_connections |-> <<>>,
            phase |-> "", replaced |-> FALSE, subs0 |-> {}, failed |-> {}]

PhaseOf(job_id) ==
    IF \E t \in TaskIds : task[t].job = job_id
    THEN task[CHOOSE t \in TaskIds : task[t].job = job_id].state
    ELSE "none"

(* A cancel that also revokes the task. *)
cancel_job_revoking(r, job_id) ==
    /\ req[r].pc = "idle"
    /\ \A q \in 1..(r - 1) : req[q].pc # "idle"
    /\ job_id \in ClientJobs
    /\ status' = set_job_status(job_id, "cancelled", {"cancelled_at"})
    /\ req' = [req EXCEPT ![r] = [IdleReq EXCEPT !.pc = "begin", !.job = job_id,
                                                 !.phase = PhaseOf(job_id)]]
    /\ task' = [t \in TaskIds |->
                   IF task[t].job = job_id /\ task[t].state \in {"queued", "running"}
                   THEN [task[t] EXCEPT !.state = "done"] ELSE task[t]]
    /\ stack' = [t \in TaskIds |->
                    IF task[t].job = job_id THEN <<>> ELSE stack[t]]
    /\ setex("status", job_id)
    /\ UNCHANGED <<result, progress, returned, progressLog,
                   active_connections, job_subscriptions, ws, inbox, owed,
                   redis_client, reply, fs,
                   trials, llmsvc, broadcasting>>

(* await job_status_manager.set_job_status(job_id, "cancelled", ...) *)
cancel_job(r, job_id) ==
    /\ req[r].pc = "idle"
    /\ \A q \in 1..(r - 1) : req[q].pc # "idle"
    /\ job_id \in ClientJobs
    /\ status' = set_job_status(job_id, "cancelled", {"cancelled_at"})
    /\ req' = [req EXCEPT ![r] = [IdleReq EXCEPT !.pc = "begin", !.job = job_id,
                                                 !.phase = PhaseOf(job_id)]]
    /\ setex("status", job_id)
    /\ UNCHANGED <<result, progress, task, stack, returned, progressLog,
                   active_connections, job_subscriptions, ws, inbox, owed,
                   redis_client, reply, fs,
                   trials, llmsvc, broadcasting>>

JobUpdate(r, job_id) ==
    [type |-> "job_update", job_id |-> job_id,
     data |-> [status |-> "cancelled", message |-> "Job cancelled by user"],
     push |-> r]

(* The for loop up to its next await: ids that are not active go to        *)
(* disconnected_connections; at is the id whose socket is sent to next.    *)
RECURSIVE Scan(_, _, _)
Scan(list, i, dead) ==
    IF i >= Len(list) THEN [i |-> i, dead |-> dead, at |-> None]
    ELSE IF list[i + 1] \in DOMAIN active_connections
         THEN [i |-> i, dead |-> dead, at |-> Some(list[i + 1])]
         ELSE Scan(list, i + 1, Append(dead, list[i + 1]))

RECURSIVE RemoveAll(_, _)
RemoveAll(list, dead) ==
    IF dead = <<>> THEN list
    ELSE RemoveAll(Remove(list, Head(dead)), Tail(dead))

(* Every active connection id, in some order. *)
EveryConnection(job_id) ==
    CHOOSE q \in Orderings(DOMAIN active_connections) : TRUE

(* for connection_id in self.job_subscriptions[job_id] *)
Recipients(job_id) == job_subscriptions[job_id]

(* One resumption of send_job_update: the loop runs to the next            *)
(* await websocket.send_json, or to its end and through the clean-up.      *)
send_job_update(r) ==
    LET q == req[r]
        job_id == q.job
    IN
    /\ q.pc \in {"begin", "send"}
    /\ UNCHANGED <<status, result, progress, task, stack, returned,
                   progressLog, active_connections, ws, owed, redis_client,
                   ttl, written, reply, fs,
                   trials, llmsvc, broadcasting>>
    /\ IF job_id \notin DOMAIN job_subscriptions
       THEN /\ req' = [req EXCEPT ![r].pc = "done"]
            /\ UNCHANGED <<job_subscriptions, inbox>>
       ELSE LET s == Scan(Recipients(job_id), q.i,
                          q.disconnected_connections)
                subs0 == IF q.pc = "begin" THEN Subscribers(job_id)
                         ELSE q.subs0
            IN  IF s.at = None
                THEN /\ job_subscriptions' =
                            [job_subscriptions EXCEPT
                                ![job_id] = RemoveAll(@, s.dead)]
                     /\ req' = [req EXCEPT
                                   ![r].pc = "done", ![r].i = s.i,
                                   ![r].disconnected_connections = s.dead,
                                   ![r].subs0 = subs0]
                     /\ UNCHANGED inbox
                ELSE LET connection_id == s.at[1]
                         websocket == active_connections[connection_id]
                         sent == ws[websocket].state = "open"
                     IN  /\ inbox' = IF sent
                                     THEN [inbox EXCEPT
                                             ![websocket] =
                                                Append(@, JobUpdate(r, job_id))]
                                     ELSE inbox
                         /\ req' = [req EXCEPT
                                 ![r].pc = "send", ![r].i = s.i + 1,
                                 ![r].subs0 = subs0,
                                 ![r].disconnected_connections =
                                     IF sent THEN s.dead
                                     ELSE Append(s.dead, connection_id),
                                 ![r].failed =
                                     IF sent THEN @
                                     ELSE @ \cup {<<connection_id, websocket>>}]
                         /\ UNCHANGED job_subscriptions

----------------------------------------------------------------------------
(* ConnectionManager.broadcast *)

(* The coroutine's position and locals: di_used is the size the dictionary *)
(* had when the items() iterator was made, visited the keys the iterator   *)
(* has yielded, raised the exception that left the coroutine.              *)
NoBroadcast == [pc |-> "idle", di_used |-> 0, visited |-> {},
                disconnected_connections |-> {}, raised |-> ""]

ChangedSize == "dictionary changed size during iteration"

(* self.disconnect(connection_id) for every id of the clean-up list *)
RECURSIVE DisconnectAll(_, _)
DisconnectAll(subs, dead) ==
    IF dead = {} THEN subs
    ELSE LET connection_id == CHOOSE c \in dead : TRUE
         IN  DisconnectAll([job_id \in DOMAIN subs |->
                               Remove(subs[job_id], connection_id)],
                           dead \ {connection_id})

(* One resumption of broadcast: from the call, or from the                 *)
(* await websocket.send_json it was suspended on, to the next one, or to   *)
(* the end of the loop and through the clean-up.  next() of the iterator   *)
(* over active_connections.items() raises RuntimeError when the size of    *)
(* the dictionary differs from di_used; otherwise it yields an entry it    *)
(* has not yielded, or stops when none is left.                            *)
broadcast ==
    LET b == IF broadcasting.pc = "idle"
             THEN [broadcasting EXCEPT
                      !.di_used = Cardinality(DOMAIN active_connections)]
             ELSE broadcasting
        left == DOMAIN active_connections \ b.visited
    IN
    /\ broadcasting.pc \in {"idle", "send"}
    /\ UNCHANGED <<status, result, progress, task, stack, returned,
                   progressLog, ws, req, owed, redis_client, ttl, written,
                   reply, fs, trials, llmsvc>>
    /\ IF Cardinality(DOMAIN active_connections) # b.di_used
       THEN /\ broadcasting' = [b EXCEPT !.pc = "raised", !.raised = ChangedSize]
            /\ UNCHANGED <<active_connections, job_subscriptions, inbox>>
       ELSE IF left = {}
       THEN /\ active_connections' =
                   [c \in DOMAIN active_connections \ b.disconnected_connections
                       |-> active_connections[c]]
            /\ job_subscriptions' =
                   DisconnectAll(job_subscriptions, b.disconnected_connections)
            /\ broadcasting' = [b EXCEPT !.pc = "done"]
            /\ UNCHANGED inbox
       ELSE \E connection_id \in left :
                LET websocket == active_connections[connection_id]
                    sent == ws[websocket].state = "open"
                IN  /\ inbox' = IF sent
                                THEN [inbox EXCEPT
                                        ![websocket] =
                                           Append(@, [type |-> "broadcast",
                                                      job_id |-> "",
                                                      data |-> <<>>,
                                                      push |-> 0])]
                                ELSE inbox
                    /\ broadcasting' =
                           [b EXCEPT
                               !.pc = "send",
                               !.visited = @ \cup {connection_id},
                               !.disconnected_connections =
                                   IF sent THEN @ ELSE @ \cup {connection_id}]
                    /\ UNCHANGED <<active_connections, job_subscriptions>>

----------------------------------------------------------------------------
(* The system *)

----------------------------------------------------------------------------
(* The free trial of anonymous devices (services/trial_service.py) *)

TRIAL_LIMIT == 3
MAX_DAILY_REQUESTS == 10

Clients == {"c1", "c2"}

(* last_used is kept as the age the code compares: "cooldown" while less   *)
(* than COOLDOWN_PERIOD seconds have passed since the last use, "recent"   *)
(* after that and up to 24 hours, "day" once more than 24 hours have       *)
(* passed.                                                                 *)
DeviceTrial(usage_count, last_used, blocked) ==
    [usage_count |-> usage_count, last_used |-> last_used, blocked |-> blocked]

NoSession == [pc |-> "idle", trial |-> None, created |-> FALSE, result |-> ""]

(* check_rate_limits on the row the session loaded: the reason of a        *)
(* denial, or "" when the use is allowed.                                  *)
check_rate_limits(trial, daily_usage) ==
    IF trial # None /\ trial[1].last_used = "cooldown" THEN "cooldown"
    ELSE IF trial # None /\ trial[1].blocked THEN "blocked"
    ELSE IF trial # None /\ trial[1].usage_count >= TRIAL_LIMIT
         THEN "trial_limit_exceeded"
    ELSE IF daily_usage >= MAX_DAILY_REQUESTS THEN "daily_limit_exceeded"
    ELSE ""

TrialFrame == UNCHANGED <<store, worker, fanout, req, owed, redis_client, ttl,
                          written, reply, fs, llmsvc, broadcasting>>

(* track_usage up to the answer of check_rate_limits: the session loads    *)
(* the device's row; a denial is returned at once.                         *)
track_usage_check(c) ==
    /\ db_session[c].pc = "idle"
    /\ LET reason == check_rate_limits(device_trials, usage_analytics) IN
       db_session' = [db_session EXCEPT
           ![c] = [pc |-> IF reason = "" THEN "select" ELSE "idle",
                   trial |-> device_trials, created |-> FALSE,
                   result |-> reason]]
    /\ UNCHANGED <<device_trials, usage_analytics>>
    /\ TrialFrame

(* The second select: a row the session already holds is not read again;   *)
(* a device without a row gets a new DeviceTrial, added to the session.    *)
track_usage_select(c) ==
    /\ db_session[c].pc = "select"
    /\ db_session' = [db_session EXCEPT
           ![c].pc = "commit",
           ![c].trial = IF db_session[c].trial # None THEN @
                        ELSE IF device_trials # None THEN device_trials
                        ELSE Some(DeviceTrial(0, "cooldown", FALSE)),
           ![c].created = db_session[c].trial = None /\ device_trials = None]
    /\ UNCHANGED <<device_trials, usage_analytics>>
    /\ TrialFrame

(* usage_count += 1, last_used = now, blocked at the limit, the analytics  *)
(* row, commit.  The INSERT of a second row for the fingerprint violates   *)
(* the unique index: rollback and "tracking_failed".                       *)
track_usage_commit(c) ==
    LET trial == db_session[c].trial[1]
        usage_count == trial.usage_count + 1
    IN
    /\ db_session[c].pc = "commit"
    /\ IF db_session[c].created /\ device_trials # None
       THEN /\ db_session' = [db_session EXCEPT
                   ![c] = [NoSession EXCEPT !.result = "tracking_failed"]]
            /\ UNCHANGED <<device_trials, usage_analytics>>
       ELSE /\ device_trials' =
                   Some(DeviceTrial(usage_count, "cooldown",
                                    \/ usage_count >= TRIAL_LIMIT
                                    \/ trial.blocked
                                    \/ (device_trials # None
                                          /\ device_trials[1].blocked)))
            /\ usage_analytics' = usage_analytics + 1
            /\ db_session' = [db_session EXCEPT
                   ![c] = [NoSession EXCEPT !.result = "success"]]
    /\ TrialFrame

(* Time passes for the device's last use. *)
Elapse ==
    /\ device_trials # None
    /\ device_trials[1].last_used # "day"
    /\ device_trials' = [device_trials EXCEPT ![1].last_used =
           IF @ = "cooldown" THEN "recent" ELSE "day"]
    /\ UNCHANGED <<usage_analytics, db_session>>
    /\ TrialFrame

TrialNext ==
    \/ \E c \in Clients : track_usage_check(c)
    \/ \E c \in Clients : track_usage_select(c)
    \/ \E c \in Clients : track_usage_commit(c)
    \/ Elapse

----------------------------------------------------------------------------
(* The multi-provider LLM client (services/llm_provider_service.py) *)

(* providers is the dictionary's keys in insertion order; what a provider  *)
(* answers to one call is an input.  usage_stats keeps the two counters    *)
(* the claims speak of.                                                    *)
ProviderNames == {"p1", "p2", "p3"}

(* The coroutine's position and locals: provider_name, fallback, e (the    *)
(* primary's exception), fallback_provider, the keys iterator (di_used,    *)
(* visited), what it returned (response: the provider that answered) or    *)
(* raised.  The other fields record its history: tried lists the fallback  *)
(* providers called, changed tells whether a provider was added or removed *)
(* while the call was in flight.  One call is followed to its end.         *)
NoGeneration ==
    [pc |-> "idle", provider_name |-> "", fallback |-> FALSE,
     e |-> "", fallback_provider |-> "", di_used |-> 0, visited |-> {},
     response |-> None, raised |-> "", tried |-> <<>>, changed |-> FALSE]

ProviderError(provider_name) == "error of " \o provider_name

InFlight == generation.pc \in {"primary", "fallback"}

(* The registry is followed until the call has ended, through one change  *)
(* made while the call is in flight.                                       *)
RegistryOpen ==
    generation.pc \notin {"returned", "raised"} /\ ~generation.changed

LlmFrame == UNCHANGED <<store, worker, fanout, req, owed, redis_client, ttl,
                        written, reply, fs, trials, broadcasting>>

add_provider(provider_name, is_default) ==
    /\ RegistryOpen
    /\ providers' = IF In(providers, provider_name) THEN providers
                    ELSE Append(providers, provider_name)
    /\ default_provider' = IF is_default \/ default_provider = None
                           THEN Some(provider_name) ELSE default_provider
    /\ usage_stats' = DictSet(usage_stats, provider_name,
                               [requests |-> 0, errors |-> 0])
    /\ generation' = [generation EXCEPT !.changed = @ \/ InFlight]
    /\ LlmFrame

(* The usage_stats entry of a removed provider stays. *)
remove_provider(provider_name) ==
    /\ RegistryOpen
    /\ In(providers, provider_name)
    /\ providers' = Remove(providers, provider_name)
    /\ default_provider' =
           IF default_provider = Some(provider_name)
           THEN IF providers' # <<>> THEN Some(Head(providers')) ELSE None
           ELSE default_provider
    /\ generation' = [generation EXCEPT !.changed = @ \/ InFlight,
                                        !.visited = @ \ {provider_name}]
    /\ UNCHANGED usage_stats
    /\ LlmFrame

update_usage_stats(provider_name) ==
    IF provider_name \in DOMAIN usage_stats
    THEN [usage_stats EXCEPT ![provider_name].requests = @ + 1]
    ELSE usage_stats

(* What generate raises once every fallback provider has failed: raise e.  *)
PropagatedLast(g, fallback_error) == fallback_error

Propagated(g, fallback_error) == g.e

(* The keys the iterator has yet to yield that are not the primary. *)
Unvisited(g) ==
    SelectSeq(providers,
              LAMBDA k : k \notin g.visited /\ k # g.provider_name)

(* The fallback loop from a next() of the keys iterator to the next await, *)
(* or out of generate: a dictionary whose size differs from di_used makes  *)
(* next() raise RuntimeError.                                              *)
FallbackLoop(g, fallback_error) ==
    IF Len(providers) # g.di_used
    THEN [g EXCEPT !.pc = "raised", !.raised = ChangedSize]
    ELSE IF Unvisited(g) = <<>>
    THEN [g EXCEPT !.pc = "raised", !.raised = Propagated(g, fallback_error)]
    ELSE [g EXCEPT !.pc = "fallback",
                   !.fallback_provider = Head(Unvisited(g)),
                   !.visited = @ \cup {Head(Unvisited(g))},
                   !.tried = Append(@, Head(Unvisited(g)))]

(* The except block of the primary call, up to the first fallback call. *)
PrimaryFailed(g) ==
    /\ usage_stats' = IF g.provider_name \in DOMAIN usage_stats
                       THEN [usage_stats EXCEPT ![g.provider_name].errors = @ + 1]
                       ELSE usage_stats
    /\ generation' =
           IF g.fallback /\ Len(providers) > 1
           THEN FallbackLoop([g EXCEPT !.di_used = Len(providers)], g.e)
           ELSE [g EXCEPT !.pc = "raised", !.raised = g.e]

(* generate from its call to the await of the primary's generate. *)
generate(provider_name, fallback) ==
    LET name == IF provider_name # None THEN provider_name ELSE default_provider
        g == [NoGeneration EXCEPT !.fallback = fallback]
    IN
    /\ generation.pc = "idle"
    /\ UNCHANGED <<providers, default_provider>>
    /\ LlmFrame
    /\ IF name = None
       THEN /\ generation' =
                   [g EXCEPT
                       !.pc = "raised",
                       !.raised =
                           "No provider specified and no default provider set"]
            /\ UNCHANGED usage_stats
       ELSE IF ~In(providers, name[1])       \* get_provider raises ValueError
       THEN PrimaryFailed([g EXCEPT !.provider_name = name[1],
                                    !.e = "Provider " \o name[1] \o " not found"])
       ELSE /\ generation' = [g EXCEPT !.pc = "primary", !.provider_name = name[1]]
            /\ UNCHANGED usage_stats

(* A provider's generate returns or raises, and generate runs on to its    *)
(* next await or to its end.                                               *)
generate_resume ==
    LET g == generation IN
    /\ InFlight
    /\ UNCHANGED <<providers, default_provider>>
    /\ LlmFrame
    /\ \E ok \in BOOLEAN :
           IF g.pc = "primary"
           THEN IF ok
                THEN /\ usage_stats' = update_usage_stats(g.provider_name)
                     /\ generation' = [g EXCEPT !.pc = "returned",
                                                !.response = Some(g.provider_name)]
                ELSE PrimaryFailed([g EXCEPT !.e = ProviderError(g.provider_name)])
           ELSE IF ok
                THEN /\ usage_stats' = update_usage_stats(g.fallback_provider)
                     /\ generation' = [g EXCEPT !.pc = "returned",
                                                !.response = Some(g.fallback_provider)]
                ELSE /\ generation' =
                            FallbackLoop(g, ProviderError(g.fallback_provider))
                     /\ UNCHANGED usage_stats

LlmNext ==
    \/ \E provider_name \in ProviderNames, is_default \in BOOLEAN :
           add_provider(provider_name, is_default)
    \/ \E provider_name \in ProviderNames : remove_provider(provider_name)
    \/ \E provider_name \in {None} \cup { Some(k) : k \in ProviderNames },
          fallback \in BOOLEAN : generate(provider_name, fallback)
    \/ generate_resume

----------------------------------------------------------------------------
Init ==
    /\ device_trials = None
    /\ usage_analytics = 0
    /\ db_session = [c \in Clients |-> NoSession]
    /\ providers = <<>>
    /\ default_provider = None
    /\ usage_stats = <<>>
    /\ generation = NoGeneration
    /\ broadcasting = NoBroadcast
    /\ status = [j \in JobIds |-> None]
    /\ result = [j \in JobIds |-> None]
    /\ progress = [j \in JobIds |-> None]
    /\ task = [t \in TaskIds |-> NoTask]
    /\ stack = [t \in TaskIds |-> <<>>]
    /\ returned = [t \in TaskIds |-> None]
    /\ progressLog = [t \in TaskIds |-> <<>>]
    /\ active_connections = <<>>
    /\ job_subscriptions = <<>>
    /\ ws = [h \in Handlers |-> [state |-> "idle", cid |-> ""]]
    /\ inbox = [h \in Handlers |-> <<>>]
    /\ req = [r \in Reqs |-> IdleReq]
    /\ owed = {}
    /\ redis_client = "connected"
    /\ ttl = [k \in Kinds |-> [j \in JobIds |-> 0]]
    /\ written = [k \in Kinds |-> [j \in JobIds |-> 0]]
    /\ reply = NoReply
    /\ fs = <<>>

Submit ==
    \/ \E t \in FirstTask, job_type \in JobTypes, content \in Contents,
          jd \in Descriptions, llm \in BOOLEAN :
           submit_job(t, job_type, content, jd, llm)
    \/ \E t \in FirstTask, content \in Contents : submit_ats_scoring(t, content)
    \/ \E t \in FirstTask, dir \in BOOLEAN : submit_temp_files_cleanup(t, dir)
    \/ \E t \in FirstTask, n \in 1..2 : submit_expired_jobs_cleanup(t, n)
    \/ \E t \in FirstTask : submit_notification_email(t)
    \/ \E t \in FirstTask, n \in 0..MaxRecipients : submit_bulk_notification(t, n)

Work ==
    \/ \E t \in TaskIds : Pickup(t)
    \/ \E t \in TaskIds : compile_latex_task(t)
    \/ \E t \in TaskIds : optimize_resume_task(t)
    \/ \E t \in TaskIds : compile_latex_with_optimization_task(t)
    \/ \E t \in TaskIds : score_resume_ats_task(t)
    \/ \E t \in TaskIds : cleanup_temp_files_task(t)
    \/ \E t \in TaskIds : cleanup_expired_jobs_task(t)
    \/ \E t \in TaskIds : send_notification_email_task(t)
    \/ \E t \in TaskIds : send_bulk_notification_task(t)

Cancel ==
    \/ \E r \in Reqs, j \in JobIds : cancel_job(r, j)
    \/ \E r \in Reqs : send_job_update(r)

SocketsOf(H) ==
    \/ \E h \in H, c \in ConnIds : connect(h, c)
    \/ \E h \in H, j \in JobIds : subscribe_to_job(h, j)
    \/ \E h \in H : ClientClose(h)
    \/ \E h \in H : disconnect(h)

Sockets == SocketsOf(Handlers)

(* The job lifecycle: submitters, the worker and the cancel requests of    *)
(* the API, with no WebSocket client.  The sockets never write the store   *)
(* and the worker never touches the connection manager.                    *)
Next == Submit \/ Work \/ Cancel

Spec == Init /\ [][Next]_vars

(* The fan-out: the WebSocket handlers and the cancel requests with their  *)
(* pushes, over the jobs of a queue no worker serves.                      *)
FanoutNext ==
    \/ \E t \in FirstTask : submit_notification_email(t)
    \/ Sockets
    \/ Cancel

FanoutSpec == Init /\ [][FanoutNext]_vars

(* One executor with one WebSocket client and the cancel requests. *)
NotifyNext ==
    \/ \E t \in FirstTask : submit_notification_email(t)
    \/ \E t \in TaskIds : Pickup(t)
    \/ \E t \in TaskIds : send_notification_email_task(t)
    \/ SocketsOf({"h1"})
    \/ Cancel

NotifySpec == Init /\ [][NotifyNext]_vars

(* compile_latex leaves its job directory and files under TEMP_DIR. *)
WriteTempFiles(tree) ==
    /\ fs' = tree
    /\ UNCHANGED <<store, worker, fanout, req, owed, redis_client, ttl,
                   written, reply, trials, llmsvc, broadcasting>>

(* The clean-up tasks: two runs over a tree that nothing else changes once *)
(* the first of them is submitted.                                        *)
CleanupNext ==
    \/ /\ \A t \in TaskIds : task[t].state = "none"
       /\ \E tree \in Trees : WriteTempFiles(tree)
    \/ \E t \in TaskIds, dir \in BOOLEAN : submit_temp_files_cleanup(t, dir)
    \/ \E t \in TaskIds, n \in 1..2 : submit_expired_jobs_cleanup(t, n)
    \/ \E t \in TaskIds : Pickup(t)
    \/ \E t \in TaskIds : cleanup_temp_files_task(t)
    \/ \E t \in TaskIds : cleanup_expired_jobs_task(t)

CleanupSpec == Init /\ [][CleanupNext]_vars

TrialSpec == Init /\ [][TrialNext]_vars

(* A broadcast while clients connect, subscribe and go away. *)
BroadcastNext ==
    \/ Sockets
    \/ broadcast

BroadcastSpec == Init /\ [][BroadcastNext]_vars

LlmSpec == Init /\ [][LlmNext]_vars

(* The sweep's call of delete_job_data, as its caller sees it. *)
remove_job_data(job_id) ==
    /\ IF redis_client = "connected"
       THEN /\ delete_job_data(job_id)
            /\ reply' = Reply("delete_job_data", job_id, "", None)
       ELSE /\ reply' = Reply("delete_job_data", job_id, StoreError, None)
            /\ UNCHANGED <<store, ttl, written>>
    /\ UNCHANGED <<worker, fanout, req, owed, redis_client, fs,
                   trials, llmsvc, broadcasting>>

(* A compilation job and the callers of the JobStatusManager while the     *)
(* connection to the store comes and goes.                                 *)
OutageNext ==
    \/ \E t \in FirstTask, content \in Contents :
           submit_latex_compilation(t, content)
    \/ \E t \in TaskIds : Pickup(t)
    \/ \E t \in TaskIds : compile_latex_task(t)
    \/ init_redis
    \/ close_redis
    \/ \E t \in FirstTask : get_status(Uuid(t))
    \/ \E t \in FirstTask : get_result(Uuid(t))
    \/ \E t \in FirstTask : get_progress(Uuid(t))
    \/ list_jobs
    \/ \E t \in FirstTask : remove_job_data(Uuid(t))

OutageSpec == Init /\ [][OutageNext]_vars

(* A compilation job, the clients that poll it and the store's clock. *)
RetentionNext ==
    \/ \E t \in FirstTask, content \in Contents :
           submit_latex_compilation(t, content)
    \/ \E t \in TaskIds : Pickup(t)
    \/ \E t \in TaskIds : compile_latex_task(t)
    \/ \E t \in FirstTask : get_status(Uuid(t))
    \/ \E t \in FirstTask : get_result(Uuid(t))
    \/ Tick

RetentionSpec == Init /\ [][RetentionNext]_vars

----------------------------------------------------------------------------
(* Properties of the job lifecycle (Spec) *)

Terminal == {"completed", "failed"}

CancelsOf(job_id) == { r \in Reqs : req[r].pc # "idle" /\ req[r].job = job_id }

(* C1: in every reachable state and for every job id, the result is        *)
(* present if and only if the status is completed or failed.               *)
C1_ResultIffTerminalStatus ==
    \A j \in JobIds : (get_job_result(j) # None) <=> (StatusOf(j) \in Terminal)

Rank(s) ==
    CASE s \in {"absent", "pending"} -> 0
      [] s = "processing"            -> 1
      [] OTHER                       -> 2

CancelWrites(j) ==
    \E r \in Reqs : req[r].pc = "idle" /\ req'[r].pc = "begin" /\ req'[r].job = j

Allowed(j, a, b) ==
    \/ b = "processing" /\ a \in {"absent", "failed", "cancelled"}
    \/ b \in Terminal /\ a \in {"processing", "cancelled", "absent"}
    \/ b = "cancelled" /\ CancelWrites(j)
    \/ b = "absent" /\ a \in Terminal \cup {"cancelled"}

C3_ProgressNonDecreasing ==
    \A t \in TaskIds :
        \A a, b \in 1..Len(progressLog[t]) :
            (a < b /\ progressLog[t][a].job = progressLog[t][b].job)
                => progressLog[t][a].value <= progressLog[t][b].value

(* A bulk notification to the most recipients has run to its end. *)
C3_BulkAttemptDone ==
    \E t \in TaskIds :
        /\ task[t].family = "bulk" /\ task[t].n = MaxRecipients
        /\ task[t].state = "done"
        /\ Len(progressLog[t]) > MaxRecipients + 1

CancelledWhileLive(t) ==
    /\ CancelsOf(task[t].job) # {}
    /\ \A r \in CancelsOf(task[t].job) : req[r].phase \in {"queued", "running"}

(* C4: cancel never stops an executor, and an executor that was queued or  *)
(* running when its job was cancelled runs to completion with its own      *)
(* status as the final one: once it has returned, having stored a result,  *)
(* the status is completed or failed.                                      *)
C4_ExecutorStatusIsFinal ==
    \A t \in TaskIds :
        (/\ task[t].state = "done"
         /\ CancelledWhileLive(t)
         /\ get_job_result(task[t].job) # None)
            => StatusOf(task[t].job) \in Terminal

(* The cancel step: writes cancelled, which the next read returns, and     *)
(* leaves the queue, the worker and the other keys alone.                  *)
CancelStep ==
    \A r \in Reqs :
        (req[r].pc = "idle" /\ req'[r].pc # "idle")
            => /\ \E j \in JobIds : req'[r].job = j /\ StatusOf(j)' = "cancelled"
               /\ UNCHANGED <<task, stack, returned, result, progress>>

(* After the executor returned: the status is cancelled exactly if some    *)
(* cancel of the job came after the executor's last status write.          *)
LastStatusWriteWins ==
    \A t \in TaskIds :
        task[t].state = "done"
            => ((StatusOf(task[t].job) = "cancelled")
                    <=> (\E r \in CancelsOf(task[t].job) : ~req[r].replaced))

(* C4 as amended: cancel only writes cancelled and pushes, and stops no    *)
(* executor; each status write the executor makes after the cancel         *)
(* replaces cancelled, so the final status is the executor's unless the    *)
(* cancel comes after the executor's last status write (or the executor    *)
(* writes none), in which case it stays cancelled.                         *)
C4_LaterStatusWritesReplaceCancelled ==
    [](LastStatusWriteWins) /\ [][CancelStep]_vars

(* A job cancelled between its executor's last status write and its return *)
(* stays cancelled although the result is stored.                          *)
C4_CancelledAfterLastWrite ==
    \E t \in TaskIds, r \in Reqs :
        /\ task[t].state = "done"
        /\ r \in CancelsOf(task[t].job)
        /\ req[r].phase = "running" /\ ~req[r].replaced
        /\ get_job_result(task[t].job) # None
        /\ StatusOf(task[t].job) = "cancelled"

CompileJob(t) ==
    /\ task[t].family = "compile"
    /\ validate_latex_content(task[t].content)
    /\ task[t].retries = 0
    /\ CancelsOf(task[t].job) = {}

CompilerSucceeded(t) == returned[t] # None /\ returned[t][1].success

ArtifactStored(job_id) ==
    /\ get_job_result(job_id) # None
    /\ get_job_result(job_id)[1].success
    /\ get_job_result(job_id)[1].pdf_size # None
    /\ get_job_result(job_id)[1].pdf_size[1] > 0

CompileStatusStep(t) ==
    \A j \in JobIds :
        (CompileJob(t)' /\ task'[t].job = j /\ StatusOf(j) # StatusOf(j)')
            => \/ StatusOf(j) = "absent" /\ StatusOf(j)' = "processing"
               \/ /\ StatusOf(j) = "processing" /\ StatusOf(j)' = "completed"
                  /\ Top(t).res # None /\ Top(t).res[1].success
               \/ /\ StatusOf(j) = "processing" /\ StatusOf(j)' = "failed"
                  /\ (Top(t).res = None \/ ~Top(t).res[1].success)

CompileJobStates ==
    \A t \in TaskIds :
        CompileJob(t)
            => /\ task[t].state = "queued" => StatusOf(task[t].job) = "absent"
               /\ (task[t].state = "done" /\ CompilerSucceeded(t))
                      => /\ StatusOf(task[t].job) = "completed"
                         /\ ArtifactStored(task[t].job)

----------------------------------------------------------------------------
(* Properties of the fan-out (FanoutSpec, NotifySpec) *)

(* The message carries the change: its data holds v under the key kind. *)
Carries(m, job_id, kind, v) ==
    /\ m.type = "job_update" /\ m.job_id = job_id
    /\ kind \in DOMAIN m.data /\ m.data[kind] = v

Delivered(o) ==
    \E k \in 1..Len(inbox[o[1]]) : Carries(inbox[o[1]][k], o[2], o[3], o[4])

Undelivered ==
    \E o \in owed : ws[o[1]].state = "open" /\ ~Delivered(o)

(* Neither the worker nor a push has a step left to take. *)
Quiet ==
    /\ \A t \in TaskIds : task[t].state \notin {"queued", "running"}
    /\ \A r \in Reqs : req[r].pc \notin {"begin", "send"}

(* C5: a change an executor writes for job J reaches, in a job_update,     *)
(* every connection that was subscribed to J at the write and stays        *)
(* connected: once the worker and the pushes have nothing left to do, no   *)
(* such change is undelivered.                                             *)
C5_ExecutorChangesArePushed == Quiet => ~Undelivered

(* C6: a push to job A delivers only to a connection that is subscribed to *)
(* A at that moment: the socket that receives the job_update is the one    *)
(* registered under a connection id of A's subscriber list.                *)
C6_PushOnlyToSubscribers ==
    [][\A h \in Handlers :
          inbox'[h] # inbox[h]
              => \E c \in DOMAIN active_connections :
                     /\ active_connections[c] = h
                     /\ inbox'[h][Len(inbox'[h])].job_id \in DOMAIN job_subscriptions
                     /\ In(job_subscriptions[inbox'[h][Len(inbox'[h])].job_id], c)
    ]_vars

SubscribedTo(h) ==
    { j \in DOMAIN job_subscriptions : In(job_subscriptions[j], ws[h].cid) }

(* Two connections with different ids and different jobs; the push to the *)
(* job of the first is over and only the first has a message.              *)
C6_OnlyTheSubscriberReceived ==
    \E g, h \in Handlers, r \in Reqs :
        /\ ws[g].state = "open" /\ ws[h].state = "open"
        /\ ws[g].cid # ws[h].cid
        /\ SubscribedTo(g) = {req[r].job}
        /\ SubscribedTo(h) # {} /\ req[r].job \notin SubscribedTo(h)
        /\ req[r].pc = "done"
        /\ Len(inbox[g]) = 1 /\ inbox[h] = <<>>

Received(h, r) ==
    Cardinality({ k \in 1..Len(inbox[h]) : inbox[h][k].push = r })

(* C7: one push delivers the payload exactly once to each connection       *)
(* subscribed to the job: a socket subscribed when the push began and      *)
(* still subscribed when it is over has exactly one message of that push.  *)
C7_ExactlyOncePerSubscriber ==
    \A r \in Reqs :
        req[r].pc = "done"
            => \A h \in req[r].subs0 \cap Subscribers(req[r].job) :
                   Received(h, r) = 1

Listed(c) == \E j \in DOMAIN job_subscriptions : In(job_subscriptions[j], c)

(* C8: when a send of a push fails, the failed connection is treated as    *)
(* disconnected: when the push is over, its socket is no longer registered *)
(* and, unless another socket holds the id by then, the id is in no job's  *)
(* subscriber list.                                                        *)
C8_FailedConnectionIsDropped ==
    [][\A r \in Reqs :
          (req[r].pc # "done" /\ req'[r].pc = "done")
              => \A f \in req'[r].failed :
                    /\ ~(f[1] \in DOMAIN active_connections'
                            /\ active_connections'[f[1]] = f[2])
                    /\ (f[1] \notin DOMAIN active_connections') => ~Listed(f[1])'
    ]_vars

(* C9: every connection id found in any job's subscriber list is an active *)
(* connection.                                                             *)
C9_NoDanglingSubscription ==
    \A j \in DOMAIN job_subscriptions :
        \A k \in 1..Len(job_subscriptions[j]) :
            job_subscriptions[j][k] \in DOMAIN active_connections

----------------------------------------------------------------------------
(* Properties of submission (Spec) *)

SubmitStep(t) == task[t].state = "none" /\ task'[t].state = "queued"

BeforeFirstWrite(t) ==
    /\ task[t].retries = 0
    /\ CancelsOf(task[t].job) = {}
    /\ \/ task[t].state = "queued"
       \/ task[t].state = "running" /\ Len(stack[t]) = 1 /\ Top(t).pc = "start"

Rejected(t) == task[t].state = "rejected"

(* The request lacks a field its job type requires, or names no job type. *)
MissingField(t) ==
    \/ task[t].family = "compile" /\ task[t].content = <<>>
    \/ /\ task[t].family \in {"optimize", "combined"}
       /\ (task[t].content = <<>> \/ task[t].jd = <<>>)
    \/ task[t].family = "unknown"

(* Every job id an executor of request t could write under. *)
JobIdsOf(t) ==
    { TopJobId(f, t) : f \in Families }
    \cup { Uuid(t) \o "_compiled", "llm_" \o NestedId(t, 0) }

(* C12: a submission with an empty required field (empty source for a      *)
(* compile job, empty source or job description for an optimize or         *)
(* combined job) or an unknown job type is rejected; the rejection         *)
(* enqueues nothing and writes nothing, it is final, and no record under   *)
(* any job id of that request ever exists, so none reaches processing.     *)
C12_InvalidSubmissionIsRejected ==
    /\ [](\A t \in TaskIds :
              (task[t].state # "none" /\ MissingField(t)) => Rejected(t))
    /\ [](\A t \in TaskIds :
              Rejected(t) => /\ stack[t] = <<>> /\ returned[t] = None
                             /\ \A j \in JobIdsOf(t) : StatusOf(j) = "absent")
    /\ [][\A t \in TaskIds :
              /\ Rejected(t) => Rejected(t)'
              /\ (~Rejected(t) /\ Rejected(t)')
                     => UNCHANGED <<status, result, progress, ttl, stack,
                                    returned>>]_vars

(* A compile request with empty source has been rejected. *)
C12_EmptyCompileRejected ==
    \E t \in TaskIds :
        Rejected(t) /\ task[t].family = "compile" /\ task[t].content = <<>>

----------------------------------------------------------------------------
(* Properties of failed attempts (Spec) *)

(* The messages of a rejected input, which no collaborator produced. *)
InputErrors == {"Invalid LaTeX content", "LaTeX content is required",
                "LLM service is not available"}

(* The task has returned the payload of a failed collaborator or of an     *)
(* exception as its final value.                                           *)
FailedForGood(t) ==
    /\ task[t].state = "done" /\ returned[t] # None
    /\ ~returned[t][1].success
    /\ returned[t][1].message \notin InputErrors

ClaimedBackoff(family) ==
    CASE family \in {"compile", "score"}     -> 60
      [] family \in {"optimize", "combined"} -> 120
      [] family = "notify"                   -> 30
      [] OTHER                               -> 0

(* C14: an attempt that ends in a collaborator failure or an exception is  *)
(* retried while the retry count is below the maximum, so a compile,       *)
(* optimize, score or notify task returns a failure payload as final only  *)
(* at retry count max_retries; no task is retried more than max_retries    *)
(* times, a clean-up task never, and a retry is scheduled with the         *)
(* family's delay (compile 60, optimize 120, score 60, notify 30).         *)
C14_FailureRetriedBelowMax ==
    \A t \in TaskIds :
        /\ (FailedForGood(t)
               /\ task[t].family \in {"compile", "optimize", "score",
                                       "notify"})
              => /\ task[t].retries = max_retries
                 /\ get_job_result(task[t].job) # None
                 /\ ~get_job_result(task[t].job)[1].success
        /\ task[t].retries <= max_retries
        /\ task[t].family \in {"temp", "sweep"} => task[t].retries = 0
        /\ task[t].retries > 0
              => task[t].countdown = ClaimedBackoff(task[t].family)

TimeoutMessage == "Compilation error: timed out"

(* C15: a compiler timeout is recorded with its own message and is retried *)
(* under the compile policy: a compile task whose final payload carries    *)
(* the timeout message has used up its retries.                            *)
C15_TimeoutRetriedUntilExhausted ==
    \A t \in TaskIds :
        (/\ task[t].family = "compile"
         /\ task[t].state = "done" /\ returned[t] # None
         /\ returned[t][1].message = TimeoutMessage)
            => /\ ~returned[t][1].success
               /\ task[t].retries = max_retries

(* The nested optimize task of a finished combined job ended in its except *)
(* block, having stored failed under its own id.                           *)
LlmStageRaised(t) ==
    /\ task[t].family = "combined" /\ task[t].llm_available
    /\ task[t].state = "done" /\ returned[t] # None
    /\ StatusOf("llm_" \o NestedId(t, 0)) = "failed"

ReportsOptimizationFailure(payload) ==
    /\ ~payload.success
    /\ payload.compilation = None
    /\ payload.error = Some("Optimization failed")

(* C16: when the LLM stage of an optimize-and-compile job raises, the      *)
(* job's final result, both as stored and as returned, has success false,  *)
(* no compilation, and an error that names the optimization stage.         *)
C16_OptimizationFailureReported ==
    \A t \in TaskIds :
        LlmStageRaised(t)
            => /\ ReportsOptimizationFailure(returned[t][1])
               /\ get_job_result(task[t].job) # None
               /\ ReportsOptimizationFailure(get_job_result(task[t].job)[1])


(* ---------------------------------------------------------------------- *)
(* C17: running a clean-up twice in succession with the same cutoff leaves *)
(* the system as one run does: the second run succeeds, changes nothing    *)
(* and reports zero additional deletions.                                  *)
InSuccession(t, u) ==
    /\ t # u
    /\ task[t].family = task[u].family
    /\ task[t].dir_exists = task[u].dir_exists
    /\ task[u].state = "done"
    /\ t \in task[u].after

Deletions(data) ==
    IF "jobs_cleaned" \in DOMAIN data
    THEN data.jobs_cleaned
    ELSE data.files_deleted + data.directories_deleted

C17_SecondCleanupDeletesNothing ==
    \A t, u \in TaskIds :
        InSuccession(t, u) /\ task[u].family = "temp" =>
            /\ returned[u] # None
            /\ returned[u][1].success
            /\ Deletions(returned[u][1]) = 0


(* ---------------------------------------------------------------------- *)
(* C18: once the retention window has passed since the last write of a     *)
(* job's status (result), the record is absent and a read returns absent;  *)
(* a read leaves every time to live as it was.                             *)
Read == reply' # reply

Expired(kind, job_id) == written[kind][job_id] >= JOB_RESULT_TTL

C18_RecordsExpireDespiteReads ==
    /\ [](\A j \in JobIds :
            /\ Expired("status", j) => get_job_status(j) = None
            /\ Expired("result", j) => get_job_result(j) = None)
    /\ [][Read =>
            /\ ttl' = ttl
            /\ (reply'.op = "get_job_status"
                   /\ Expired("status", reply'.job_id)) => reply'.value = None
            /\ (reply'.op = "get_job_result"
                   /\ Expired("result", reply'.job_id)) => reply'.value = None]_vars

(* A job completed, its records outlived the window, and the last read of  *)
(* its result returned absent.                                             *)
C18_CompletedJobExpired ==
    \E t \in TaskIds :
        /\ task[t].state = "done" /\ returned[t][1].success
        /\ Expired("status", task[t].job) /\ Expired("result", task[t].job)
        /\ reply = Reply("get_job_result", task[t].job, "", None)


(* ---------------------------------------------------------------------- *)
(* C19: while the store is unavailable every JobStatusManager call raises  *)
(* and changes no state; an executor whose handler is hit propagates the   *)
(* exception out of the attempt and returns no payload, and the job may    *)
(* be left at processing.                                                  *)
StoreDown == redis_client # "connected"

InHandler(t) == stack[t] # <<>> /\ Top(t).pc \in {"exc", "exc_result"}

C20_StatusWriteKeepsEarlierFields ==
    [][\A j \in JobIds :
          (get_job_status(j) # None /\ status'[j] # None) =>
              get_job_status(j)[1].metadata \subseteq status'[j][1].metadata]_vars


(* ---------------------------------------------------------------------- *)
(* C21: a device gets exactly three free uses: an attempt made while fewer *)
(* than three uses are recorded is allowed, no more than three attempts    *)
(* are ever allowed, and the recorded count never exceeds three.           *)
Attempt(c) == db_session[c].pc = "idle" /\ db_session'[c] # db_session[c]

UsesRecorded == IF device_trials = None THEN 0 ELSE device_trials[1].usage_count

C21_ExactlyThreeFreeUses ==
    /\ [][\A c \in Clients :
            Attempt(c) /\ UsesRecorded < TRIAL_LIMIT =>
                db_session'[c].result = ""]_vars
    /\ [](UsesRecorded <= TRIAL_LIMIT)
    /\ [](usage_analytics <= TRIAL_LIMIT)


(* ---------------------------------------------------------------------- *)
(* C22: the trial resets every 24 hours: a device that has used its three  *)
(* free uses is allowed again once more than 24 hours have passed since    *)
(* its last use.                                                           *)
C22_TrialResetsAfterADay ==
    [][\A c \in Clients :
          (/\ Attempt(c)
           /\ UsesRecorded >= TRIAL_LIMIT
           /\ device_trials[1].last_used = "day") =>
              db_session'[c].result = ""]_vars


(* ---------------------------------------------------------------------- *)
(* C23: an executor whose own input validation fails stores, besides the   *)
(* status failed, a result with success false, and returns at once         *)
(* without a retry.                                                        *)
InputRejected(t) ==
    /\ task[t].state = "done"
    /\ \/ task[t].family = "compile" /\ ~validate_latex_content(task[t].content)
       \/ task[t].family = "score" /\ Strip(task[t].content) = <<>>

C23_ValidationFailureStoresResult ==
    \A t \in TaskIds :
        InputRejected(t) =>
            /\ task[t].retries = 0
            /\ ~returned[t][1].success
            /\ get_job_result(task[t].job) # None
            /\ ~get_job_result(task[t].job)[1].success


(* ---------------------------------------------------------------------- *)
(* C24: in the combined executor the nested compile, run under the job id  *)
(* "<job_id>_compiled" and writing only there, starts only after the       *)
(* optimize phase has succeeded, and the combined job ends completed       *)
(* exactly when both phases succeeded: a finished job is failed only if    *)
(* its LLM call or its compilation failed, and completed only if the       *)
(* compilation ran and completed (jobs nobody cancelled).                  *)
CompiledJobId(t) == task[t].job \o "_compiled"

LlmJobId(t) == "llm_" \o NestedId(t, 0)

OptimizeSucceeded(t) ==
    task[t].llm_available /\ get_job_progress(LlmJobId(t)) = Some(90)

CompilePhaseStarted(t) ==
    \/ Len(stack[t]) = 2 /\ Top(t).fn = "compile"
    \/ get_job_status(CompiledJobId(t)) # None

CombinedJob(t) ==
    task[t].family = "combined" /\ task[t].state \notin {"none", "rejected"}

CombinedFinished(t) ==
    /\ task[t].state = "done"
    /\ task[t].family = "combined"
    /\ returned[t] # None

CompileOnlyAfterOptimize ==
    \A t \in TaskIds :
        (CombinedJob(t) /\ CompilePhaseStarted(t))
            => OptimizeSucceeded(t)

(* No combined job ever starts its compile phase or reaches completed.     *)
CombinedNeverCompiles ==
    \A t \in TaskIds :
        CombinedJob(t) =>
            /\ ~CompilePhaseStarted(t)
            /\ StatusOf(task[t].job) # "completed"


(* ---------------------------------------------------------------------- *)
(* C25: a push or broadcast iterates over a snapshot of the collection: no *)
(* connect, subscribe or disconnect that runs while it is suspended on a   *)
(* send makes it raise a concurrent-modification error.                    *)
C25_NoConcurrentModificationError ==
    /\ broadcasting.raised # ChangedSize
    /\ \A r \in Reqs : req[r].pc # "raised"


(* ---------------------------------------------------------------------- *)
(* C26: a clean-up removes only what is older than its cutoff: the         *)
(* temp-file clean-up deletes no file or directory modified after the      *)
(* cutoff, and the sweep deletes a job's records only if the job is        *)
(* completed, failed or cancelled and was last updated before the cutoff.  *)
CleanupStep == \E t \in TaskIds : task[t].state = "running"

(* fs[path] tells whether the path was last modified before the cutoff. *)
RemovedOnlyOldPaths ==
    CleanupStep => \A path \in DOMAIN fs \ DOMAIN fs' : fs[path]

Swept(job_id) == status[job_id] # None /\ status'[job_id] = None

SweptOnlyTerminalJobs ==
    \A job_id \in JobIds : Swept(job_id) => Deletable(StatusOf(job_id))

(* No time has passed since a record whose written count is 0 was written. *)
SweptOnlyAgedJobs ==
    \A job_id \in JobIds : Swept(job_id) => written["status"][job_id] > 0

C26_CleanupRemovesOnlyExpired ==
    [][RemovedOnlyOldPaths /\ SweptOnlyTerminalJobs /\ SweptOnlyAgedJobs]_vars

C26_TempCleanupRemovesOnlyOld == [][RemovedOnlyOldPaths]_vars

C26_SweepRemovesOnlyTerminal == [][SweptOnlyTerminalJobs]_vars

C26_SweepRemovesOnlyAged == [][SweptOnlyAgedJobs]_vars


(* ---------------------------------------------------------------------- *)
(* C27: when the primary provider's call raises and fallback is enabled,   *)
(* generate retries once, against a secondary registered provider: its     *)
(* response is returned and counted for it, or else the error goes to the  *)
(* caller; with fallback disabled or one registered provider the primary's *)
(* error goes to the caller directly.  (Calls during which the registry    *)
(* is not changed.)                                                        *)
GenerateEnded ==
    generation.pc \in {"returned", "raised"} /\ ~generation.changed

PrimaryRaised == generation.e # ""

FallbackApplies == generation.fallback /\ Len(providers) > 1

Requests(provider_name) == usage_stats[provider_name].requests

DirectPropagation ==
    (PrimaryRaised /\ ~FallbackApplies)
        => /\ generation.pc = "raised"
           /\ generation.raised = generation.e
           /\ generation.tried = <<>>

OtherProviders ==
    SelectSeq(providers, LAMBDA k : k # generation.provider_name)

IsPrefix(a, b) == Len(a) <= Len(b) /\ a = SubSeq(b, 1, Len(a))

Last(list) == list[Len(list)]

Finishes(t) == task[t].state = "running" /\ task'[t].state = "done"

C28_FinishedTaskLeavesTerminalStatus ==
    [][\A t \in TaskIds :
          (Finishes(t) /\ CancelsOf(task[t].job) = {})
              => /\ status'[task[t].job] # None
                 /\ status'[task[t].job][1].status \in Terminal]_vars

(* The same for every finish but the early return of an optimization that  *)
(* found no LLM service.                                                   *)
FinishedWithLlmLeavesTerminalStatus ==
    [][\A t \in TaskIds :
          (/\ Finishes(t) /\ CancelsOf(task[t].job) = {}
           /\ ~(task[t].family = "optimize" /\ ~task[t].llm_available))
              => /\ status'[task[t].job] # None
                 /\ status'[task[t].job][1].status \in Terminal]_vars


(* ---------------------------------------------------------------------- *)
(* C29: a connection subscribed to the job and connected from the start of *)
(* a push to its end receives the payload, whatever other subscribers do   *)
(* in the meantime: when the push is over, a socket that was subscribed    *)
(* when it began, is still open and has its id still registered to it has  *)
(* a message of that push.                                                 *)
ConnectedThroughout(h, r) ==
    /\ h \in req[r].subs0
    /\ ws[h].state = "open"
    /\ ws[h].cid \in DOMAIN active_connections
    /\ active_connections[ws[h].cid] = h

C29_ConnectedSubscriberReceives ==
    \A r \in Reqs :
        req[r].pc = "done"
            => \A h \in Handlers :
                   ConnectedThroughout(h, r) => Received(h, r) >= 1


(* ---------------------------------------------------------------------- *)
(* C30: in every reachable state, a job that has a status completed or     *)
(* failed and a result has success true in the result exactly when the     *)
(* status is completed, also when an earlier attempt stored a failure      *)
(* result and a later attempt succeeds.                                    *)
Agree(job_id) ==
    (StatusOf(job_id) \in Terminal /\ get_job_result(job_id) # None)
        => (get_job_result(job_id)[1].success
                <=> StatusOf(job_id) = "completed")

C30_ResultSuccessMatchesStatus == \A job_id \in JobIds : Agree(job_id)

(* The same, for the jobs of tasks that have finished. *)
FinishedJobsAgree ==
    \A t \in TaskIds : task[t].state = "done" => Agree(task[t].job)


====
